---- MODULE Spec2Model ----
(***************************************************************************)
(* A model of airev's git background worker (src/airev/src/git) and of the *)
(* two channels that connect it to the UI thread.                          *)
(*                                                                         *)
(* The worker thread owns the git2::Repository.  Requests travel on a      *)
(* crossbeam unbounded channel (AsyncGit.request_tx -> rx), results travel *)
(* on the tokio unbounded event channel (event_tx -> the main loop's rx).  *)
(*                                                                         *)
(* AppSpec drives one AppState (src/airev/src/app.rs) through the key      *)
(* handlers of ui/keybindings.rs and apply_git_result.  MainSpec is main's *)
(* event loop (src/airev/src/main.rs) with the event task of event.rs and  *)
(* the SIGTERM flag of tui.rs.  ExtractSpec and HighlightSpec apply the    *)
(* diff extraction and highlighting functions of git/worker.rs on their    *)
(* own; DbSpec is the sessions table of airev-core/src/db.rs, StoreSpec    *)
(* two connections opening one database file, ReviewSpec the per-file     *)
(* review flags, and KeySpec the key dispatcher of ui/keybindings.rs.      *)
(***************************************************************************)
EXTENDS Integers, Sequences, FiniteSets, TLC

\* ------------------------------------------------------------------ bounds

\* Number of load_diff calls the UI side makes in one behaviour.
MaxRequests == 2

\* Number of LoadDiff requests and results under way between Tab and display.
MaxPending == 2

\* Number of events put on the event channel in one behaviour.
MaxEvents == 3

\* Number of deltas in a diff handed to the extraction functions on their own.
MaxFiles == 3

\* Number of hunks, and of lines in all of them together, handed to
\* highlight_hunks on its own.
MaxHunks == 2

MaxLines == 3

\* Number of detect_or_create_session calls made on the connection.
MaxCalls == 3

\* ------------------------------------------------------------- data types

\* git/types.rs: enum DiffMode.
DiffMode == {"Unstaged", "Staged", "CommitRange", "BranchComparison"}

\* Ref strings a LoadDiffRange request may carry.
RangeRefs == {"v1", "gone"}

\* Names the repository may resolve to a commit.
RepoRefs == {"HEAD", "main", "v1"}

\* git/types.rs: enum GitRequest.
LoadDiff(mode) == [tag |-> "LoadDiff", mode |-> mode]

LoadDiffRange(from, to) == [tag |-> "LoadDiffRange", from |-> from, to |-> to]

GitRequest ==
    {LoadDiff(m) : m \in DiffMode}
        \cup {LoadDiffRange(f, t) : f \in RangeRefs, t \in RangeRefs}

\* A git2 diff line, hunk and delta as the foreach callbacks see them.  A line's
\* content is a sequence of characters; a path is its '.'-separated pieces.
NativeLine(origin, content) == [origin |-> origin, content |-> content]

NativeHunk(header, old_start, new_start, lines) ==
    [header |-> header, old_start |-> old_start, new_start |-> new_start,
     lines |-> lines]

NativeDelta(path, status, hunks) ==
    [path |-> path, status |-> status, hunks |-> hunks]

\* The native diffs of this model: a diff with no delta, a one-file diff with a
\* removed/added pair, and a three-file diff whose first file has two hunks and
\* whose second (a binary file) has none.
EmptyDiff == << >>

PairDiff ==
    << NativeDelta(<<"src/a", "rs">>, "Modified",
         << NativeHunk("@@ -1 +1 @@", 1, 1,
              << NativeLine("-", <<"f", "\n">>),
                 NativeLine("+", <<"g", "\n">>) >>) >>) >>

ThreeFileDiff ==
    << NativeDelta(<<"a", "rs">>, "Modified",
         << NativeHunk("@@ -1 +1 @@", 1, 1,
              << NativeLine(" ", <<"c", "\n">>),
                 NativeLine("-", <<"x", "\n">>) >>),
            NativeHunk("@@ -9 +9 @@", 9, 9,
              << NativeLine("+", <<"y", "\n">>) >>) >>),
       NativeDelta(<<"img">>, "Added", << >>),
       NativeDelta(<<"b", "py">>, "Deleted",
         << NativeHunk("@@ -3 +0 @@", 3, 0,
              << NativeLine("-", <<"z", "\n">>),
                 NativeLine("-", <<"w", "\n">>),
                 NativeLine("+", <<"v", "\n">>) >>) >>) >>

\* The hunks highlight_hunks is given when applied on its own: up to MaxLines
\* lines of every origin, each with a text of its own, cut in every way into
\* up to MaxHunks hunks (a hunk may be left without lines), each hunk with a
\* header of its own.
Origins == {"+", "-", " "}

Headers == <<"@@ -1 +1 @@", "@@ -9 +9 @@", "@@ -20 +20 @@", "@@ -31 +31 @@">>

Texts == <<"a", "b", "c", "d", "e", "f", "g", "h">>

BoundedOrigins == UNION {[1..t -> Origins] : t \in 0..MaxLines}

FlatLines(origins) ==
    [i \in 1..Len(origins) |->
        [origin |-> origins[i], content |-> <<Texts[i], "\n">>]]

\* The ways of cutting t lines into n consecutive hunks: hunk k holds lines
\* c[k]+1 .. c[k+1].
Cuts(n, t) ==
    {c \in [1..(n + 1) -> 0..t] :
        c[1] = 0 /\ c[n + 1] = t /\ \A k \in 1..n : c[k] <= c[k + 1]}

HunksOf(origins, c, n) ==
    [k \in 1..n |->
        [header |-> Headers[k], old_start |-> k, new_start |-> k,
         lines |-> SubSeq(FlatLines(origins), c[k] + 1, c[k + 1])]]

BoundedHunks ==
    {<< >>} \cup
    UNION {UNION {{HunksOf(os, c, n) : c \in Cuts(n, Len(os))} :
                     os \in BoundedOrigins} : n \in 1..MaxHunks}

\* The diffs the running worker meets.
Diffs == {EmptyDiff, ThreeFileDiff}

\* The diffs a function applied on its own is given.
AllDiffs == Diffs \cup {PairDiff}

\* The deltas a diff is assembled from when extraction is applied on its own:
\* a file with two hunks, a binary file with none, and two files with one.
Deltas == {ThreeFileDiff[1], ThreeFileDiff[2], ThreeFileDiff[3], PairDiff[1]}

\* Every diff of at most MaxFiles of these deltas, in every order; a diff
\* lists a path once.
BoundedDiffs ==
    {d \in UNION {[1..n -> Deltas] : n \in 0..MaxFiles} :
        \A i, j \in 1..Len(d) : i # j => d[i] # d[j]}

\* What the worker finds on disk when it handles a request: the names that
\* resolve and peel to a commit with a tree, whether the final native diff call
\* succeeds, and the diff it yields.  The repository is shared with the outside
\* world, so each request may find it in a different condition.
RepositoryOver(diffs) ==
    [commits : SUBSET RepoRefs, diff_ok : BOOLEAN, diff : diffs]

Repository == RepositoryOver(Diffs)

\* Result<Diff, git2::Error>.
Ok(diff) == [ok |-> TRUE, diff |-> diff]

Err == [ok |-> FALSE, diff |-> << >>]

\* ------------------------------------------------------------ DiffResolver

\* repo.diff_index_to_workdir / diff_tree_to_index / diff_tree_to_tree.
native_diff(repo) == IF repo.diff_ok THEN Ok(repo.diff) ELSE Err

\* revparse_single(name)?.peel_to_commit()?.tree()? and head()?.peel_to_commit()?.
resolves(repo, name) == name \in repo.commits

\* A resolver that answers CommitRange with the working-directory diff.
get_diff_for_mode_range_as_workdir(repo, mode) ==
    CASE mode = "Unstaged" -> native_diff(repo)
      [] mode = "Staged" ->
            IF resolves(repo, "HEAD") THEN native_diff(repo) ELSE Err
      [] mode = "BranchComparison" ->
            IF resolves(repo, "main") /\ resolves(repo, "HEAD")
            THEN native_diff(repo) ELSE Err
      [] mode = "CommitRange" -> native_diff(repo)

get_diff_for_mode(repo, mode) ==
    CASE mode = "Unstaged" -> native_diff(repo)
      [] mode = "Staged" ->
            IF resolves(repo, "HEAD") THEN native_diff(repo) ELSE Err
      [] mode = "BranchComparison" ->
            IF resolves(repo, "main") /\ resolves(repo, "HEAD")
            THEN native_diff(repo) ELSE Err
      [] mode = "CommitRange" -> Err

get_diff_for_range(repo, from, to) ==
    IF resolves(repo, from) /\ resolves(repo, to) THEN native_diff(repo) ELSE Err

\* ----------------------------------------------------------- DiffExtractor

RECURSIVE Flatten(_)
Flatten(seqs) == IF seqs = << >> THEN << >> ELSE Head(seqs) \o Flatten(Tail(seqs))

OwnedDiffLine(line) == [origin |-> line.origin, content |-> line.content]

OwnedDiffHunk(hunk, lines) ==
    [header |-> hunk.header, old_start |-> hunk.old_start,
     new_start |-> hunk.new_start, lines |-> lines]

\* git2's Diff::foreach: the callbacks it makes, in order.  file_cb once per
\* delta, then for each hunk of the delta hunk_cb followed by line_cb once per
\* line of the hunk.
hunk_calls(hunk) ==
    << [cb |-> "hunk", hunk |-> hunk] >>
        \o [i \in 1..Len(hunk.lines) |-> [cb |-> "line", line |-> hunk.lines[i]]]

delta_calls(delta) ==
    << [cb |-> "file", delta |-> delta] >>
        \o Flatten([j \in 1..Len(delta.hunks) |-> hunk_calls(delta.hunks[j])])

foreach(diff) == Flatten([i \in 1..Len(diff) |-> delta_calls(diff[i])])

\* Closures that note the file index where the hunk count belongs.
extract_hunks_cb_counts_files(acc, call) ==
    CASE call.cb = "file" ->
            [acc EXCEPT !.file_hunk_starts = Append(@, Len(acc.file_hunk_starts))]
      [] call.cb = "hunk" ->
            [acc EXCEPT !.hunks = Append(@, OwnedDiffHunk(call.hunk, << >>))]
      [] call.cb = "line" ->
            IF acc.hunks = << >> THEN acc
            ELSE [acc EXCEPT !.hunks[Len(acc.hunks)].lines =
                                Append(@, OwnedDiffLine(call.line))]

\* The three closures of extract_hunks: the file callback pushes the current
\* length of the hunk list, the hunk callback pushes a hunk with no lines, the
\* line callback pushes the line onto the last hunk, if there is one.
extract_hunks_cb(acc, call) ==
    CASE call.cb = "file" ->
            [acc EXCEPT !.file_hunk_starts = Append(@, Len(acc.hunks))]
      [] call.cb = "hunk" ->
            [acc EXCEPT !.hunks = Append(@, OwnedDiffHunk(call.hunk, << >>))]
      [] call.cb = "line" ->
            IF acc.hunks = << >> THEN acc
            ELSE [acc EXCEPT !.hunks[Len(acc.hunks)].lines =
                                Append(@, OwnedDiffLine(call.line))]

RECURSIVE extract_hunks_walk(_, _)
extract_hunks_walk(calls, acc) ==
    IF calls = << >> THEN acc
    ELSE extract_hunks_walk(Tail(calls), extract_hunks_cb(acc, Head(calls)))

\* What extract_hunks returns when foreach stops with an error after n
\* callbacks: `let _ =` discards the error and the two vectors are returned as
\* they are.
extract_hunks_upto(diff, n) ==
    extract_hunks_walk(SubSeq(foreach(diff), 1, n),
                       [hunks |-> << >>, file_hunk_starts |-> << >>])

\* extract_hunks when the traversal completes.
extract_hunks(diff) == extract_hunks_upto(diff, Len(foreach(diff)))

StatusChar(status) ==
    CASE status = "Added" -> "A"
      [] status = "Deleted" -> "D"
      [] status = "Renamed" -> "R"
      [] OTHER -> "M"

\* Closures that count every line that is not an addition as removed.
extract_files_cb_counts_context(files, call) ==
    CASE call.cb = "file" ->
            Append(files, [path |-> call.delta.path,
                           status |-> StatusChar(call.delta.status),
                           added |-> 0, removed |-> 0])
      [] call.cb = "line" ->
            IF files = << >> THEN files
            ELSE IF call.line.origin = "+"
                 THEN [files EXCEPT ![Len(files)].added = @ + 1]
                 ELSE [files EXCEPT ![Len(files)].removed = @ + 1]
      [] OTHER -> files

\* The two closures of extract_files: the file callback pushes a FileSummary
\* with zero counts, the line callback bumps the last file's added or removed
\* count by the line's origin.  No hunk callback is registered.
extract_files_cb(files, call) ==
    CASE call.cb = "file" ->
            Append(files, [path |-> call.delta.path,
                           status |-> StatusChar(call.delta.status),
                           added |-> 0, removed |-> 0])
      [] call.cb = "line" ->
            IF files = << >> THEN files
            ELSE CASE call.line.origin = "+" ->
                        [files EXCEPT ![Len(files)].added = @ + 1]
                   [] call.line.origin = "-" ->
                        [files EXCEPT ![Len(files)].removed = @ + 1]
                   [] OTHER -> files
      [] OTHER -> files

RECURSIVE extract_files_walk(_, _)
extract_files_walk(calls, files) ==
    IF calls = << >> THEN files
    ELSE extract_files_walk(Tail(calls), extract_files_cb(files, Head(calls)))

extract_files_upto(diff, n) ==
    extract_files_walk(SubSeq(foreach(diff), 1, n), << >>)

\* extract_files when the traversal completes.
extract_files(diff) == extract_files_upto(diff, Len(foreach(diff)))

\* path.rsplit('.').next(): the piece after the last '.'.
file_ext(path) == path[Len(path)]

\* -------------------------------------------------------- HighlightPipeline

\* static TS: ThemeSet::load_defaults() holds "base16-ocean.dark".
HasTheme == TRUE

RECURSIVE trim_end_newlines(_)
trim_end_newlines(s) ==
    IF s # << >> /\ s[Len(s)] = "\n"
    THEN trim_end_newlines(SubSeq(s, 1, Len(s) - 1))
    ELSE s

\* The text handed to the highlighter: one leading origin marker stripped,
\* trailing newlines trimmed.
code_of(content) ==
    trim_end_newlines(
        IF content # << >> /\ content[1] \in {"+", "-", " "}
        THEN Tail(content) ELSE content)

\* A rendered ratatui Line: its prefix span, how the rest was styled ("syntax":
\* syntect spans, "word": word_diff_spans against `other`, "plain": the no-theme
\* fallback, "header": the hunk header) and the text.
Rendered(prefix, style, text, other) ==
    [prefix |-> prefix, style |-> style, text |-> text, other |-> other]

HeaderLine(hunk) == Rendered("", "header", <<hunk.header>>, << >>)

Flush(pending) == IF pending = << >> THEN << >> ELSE <<pending[1]>>

\* The per-line loop that never pairs: a removed line is flushed alone even
\* when an added line follows it.
RECURSIVE highlight_lines_never_pairs(_, _, _)
highlight_lines_never_pairs(lines, pending, ext) ==
    IF lines = << >> THEN Flush(pending)
    ELSE LET dl == Head(lines)
             code == code_of(dl.content)
         IN CASE dl.origin = "-" ->
                    Flush(pending)
                        \o highlight_lines_never_pairs(Tail(lines),
                              <<Rendered("- ", "syntax", code, <<ext>>)>>, ext)
              [] dl.origin = "+" ->
                    Flush(pending)
                        \o << Rendered("+ ", "syntax", code, <<ext>>) >>
                        \o highlight_lines_never_pairs(Tail(lines), << >>, ext)
              [] OTHER ->
                    Flush(pending)
                        \o << Rendered(dl.origin, "syntax", code, <<ext>>) >>
                        \o highlight_lines_never_pairs(Tail(lines), << >>, ext)

\* The per-line loop without the flush after the last line of the hunk.
RECURSIVE highlight_lines_no_trailing_flush(_, _, _)
highlight_lines_no_trailing_flush(lines, pending, ext) ==
    IF lines = << >> THEN << >>
    ELSE LET dl == Head(lines)
             code == code_of(dl.content)
         IN CASE dl.origin = "-" ->
                    Flush(pending)
                        \o highlight_lines_no_trailing_flush(Tail(lines),
                              <<Rendered("- ", "syntax", code, <<ext>>)>>, ext)
              [] dl.origin = "+" ->
                    (IF pending # << >>
                     THEN << Rendered("- ", "word", pending[1].text, code),
                             Rendered("+ ", "word", code, pending[1].text) >>
                     ELSE << Rendered("+ ", "syntax", code, <<ext>>) >>)
                        \o highlight_lines_no_trailing_flush(Tail(lines), << >>, ext)
              [] OTHER ->
                    Flush(pending)
                        \o << Rendered(dl.origin, "syntax", code, <<ext>>) >>
                        \o highlight_lines_no_trailing_flush(Tail(lines), << >>, ext)

\* The per-line loop of highlight_hunks; `pending` is pending_removed, empty or
\* holding the one buffered removed line.
RECURSIVE highlight_lines(_, _, _)
highlight_lines(lines, pending, ext) ==
    IF lines = << >> THEN Flush(pending)
    ELSE LET dl == Head(lines)
             code == code_of(dl.content)
         IN CASE dl.origin = "-" ->
                    Flush(pending)
                        \o highlight_lines(Tail(lines),
                              <<Rendered("- ", "syntax", code, <<ext>>)>>, ext)
              [] dl.origin = "+" ->
                    (IF pending # << >>
                     THEN << Rendered("- ", "word", pending[1].text, code),
                             Rendered("+ ", "word", code, pending[1].text) >>
                     ELSE << Rendered("+ ", "syntax", code, <<ext>>) >>)
                        \o highlight_lines(Tail(lines), << >>, ext)
              [] OTHER ->
                    Flush(pending)
                        \o << Rendered(dl.origin, "syntax", code, <<ext>>) >>
                        \o highlight_lines(Tail(lines), << >>, ext)

\* emit_plain_hunk_lines: one plain line per diff line.
emit_plain_hunk_lines(lines) ==
    [i \in 1..Len(lines) |->
        Rendered(lines[i].origin, "plain",
                 trim_end_newlines(lines[i].content), << >>)]

\* The hunk loop recording the offset after the header has been pushed.
RECURSIVE highlight_from_offset_after_header(_, _, _, _)
highlight_from_offset_after_header(hunks, ext, theme, done) ==
    IF hunks = << >> THEN [highlighted_lines |-> << >>, hunk_offsets |-> << >>]
    ELSE LET hunk == Head(hunks)
             body == IF theme THEN highlight_lines(hunk.lines, << >>, ext)
                     ELSE emit_plain_hunk_lines(hunk.lines)
             mine == <<HeaderLine(hunk)>> \o body
             rest == highlight_from_offset_after_header(Tail(hunks), ext, theme,
                                                        done + Len(mine))
         IN [highlighted_lines |-> mine \o rest.highlighted_lines,
             hunk_offsets |-> <<done + 1>> \o rest.hunk_offsets]

\* The loop over hunks of highlight_hunks; `done` is highlighted_lines.len()
\* when the hunk is reached.
RECURSIVE highlight_from(_, _, _, _)
highlight_from(hunks, ext, theme, done) ==
    IF hunks = << >> THEN [highlighted_lines |-> << >>, hunk_offsets |-> << >>]
    ELSE LET hunk == Head(hunks)
             body == IF theme THEN highlight_lines(hunk.lines, << >>, ext)
                     ELSE emit_plain_hunk_lines(hunk.lines)
             mine == <<HeaderLine(hunk)>> \o body
             rest == highlight_from(Tail(hunks), ext, theme, done + Len(mine))
         IN [highlighted_lines |-> mine \o rest.highlighted_lines,
             hunk_offsets |-> <<done>> \o rest.hunk_offsets]

\* highlight_hunks passing over the hunks that have no line.
highlight_hunks_skips_empty(hunks, ext, theme) ==
    LET HasLine(h) == h.lines # << >>
    IN  highlight_from(SelectSeq(hunks, HasLine), ext, theme, 0)

highlight_hunks(hunks, ext, theme) == highlight_from(hunks, ext, theme, 0)

\* --------------------------------------------------------------- payloads

GitResultPayload(mode, hunks, files, highlighted_lines, hunk_offsets, file_line_offsets) ==
    [mode |-> mode, hunks |-> hunks, files |-> files,
     highlighted_lines |-> highlighted_lines, hunk_offsets |-> hunk_offsets,
     file_line_offsets |-> file_line_offsets]

process_diff(mode, diff) ==
    LET eh == extract_hunks(diff)
        files == extract_files(diff)
        ext == IF files = << >> THEN "txt" ELSE file_ext(files[1].path)
        hl == highlight_hunks(eh.hunks, ext, HasTheme)
        file_line_offsets ==
            [i \in 1..Len(eh.file_hunk_starts) |->
                IF eh.file_hunk_starts[i] + 1 <= Len(hl.hunk_offsets)
                THEN hl.hunk_offsets[eh.file_hunk_starts[i] + 1]
                ELSE 0]
    IN GitResultPayload(mode, eh.hunks, files, hl.highlighted_lines,
                        hl.hunk_offsets, file_line_offsets)

EmptyPayload(mode) == GitResultPayload(mode, << >>, << >>, << >>, << >>, << >>)

\* The mode a request asks for.
RequestedMode(request) ==
    IF request.tag = "LoadDiff" THEN request.mode ELSE "CommitRange"

resolve(repo, request) ==
    IF request.tag = "LoadDiff" THEN get_diff_for_mode(repo, request.mode)
    ELSE get_diff_for_range(repo, request.from, request.to)

\* A handler that tags the failure payload with DiffMode::default().
handle_request_default_mode(repo, request) ==
    LET mode == RequestedMode(request)
        diff_result == resolve(repo, request)
    IN IF diff_result.ok THEN process_diff(mode, diff_result.diff)
       ELSE EmptyPayload("Unstaged")

handle_request(repo, request) ==
    LET mode == RequestedMode(request)
        diff_result == resolve(repo, request)
    IN IF diff_result.ok THEN process_diff(mode, diff_result.diff)
       ELSE EmptyPayload(mode)

\* ------------------------------------------------------------------ state

VARIABLES
    wpc,          \* where the worker thread is in git_worker_loop
    repo_handle,  \* the worker's git2::Repository: none, open, failed, released
    request,      \* Option: the request the worker has dequeued
    payload,      \* Option: the payload handle_request returned
    req_chan,     \* the crossbeam request channel's queue
    request_tx,   \* AsyncGit (the request sender) has not been dropped
    event_chan,   \* the tokio event channel's queue
    event_rx,     \* the main loop's receiver has not been dropped
    load_returns, \* history: what each load_diff call returned
    enqueued,     \* history: the requests the request channel accepted
    dequeued,     \* history: how many requests the worker has dequeued
    results,      \* history: every event_tx.send call, with its outcome
    dequeued_at_close, \* history: `dequeued` when AsyncGit was dropped, -1 before
    fn_in,        \* the arguments of a function applied on its own, or None
    fn_out,       \* Option: what that function returned
    state,        \* app.rs: the AppState the key handlers and the renderer share
    git_tx,       \* the requests sent through state.git_tx, not yet answered
    git_results,  \* the GitResult payloads on their way to apply_git_result
    app_pc,       \* "running", or "panicked" after an index out of bounds
    last_call,    \* history: the AppState operation that ran last
    applied,      \* history: Option, the payload apply_git_result was last given
    selected,     \* history: Option, the mode the last Tab selected
    key_log,      \* history: Option, the last handle_key call and what it returned
    mpc,          \* where main is: "select", "poll", "restore", "returned"
    term_flag,    \* the Arc<AtomicBool> register_sigterm returns
    rx,           \* main's receiver: the events sent and not yet received
    stream,       \* crossterm EventStream: "live" or "exhausted"
    sent,         \* history: how many events were put on the channel
    draws,        \* history: how many times terminal.draw was called
    renders,      \* history: how many Render events main received
    restores,     \* history: how many times restore_tui was called after the loop
    after_flag,   \* history: events received while the flag was already set
    exit_via,     \* history: the statement through which main left the loop
    last_result,  \* history: Option, the last GitResult payload main received
    task_failed_sends, \* history: the event task's sends that found no receiver
    db            \* the sessions table behind one tokio_rusqlite Connection

vars ==
    << wpc, repo_handle, request, payload, req_chan, request_tx, event_chan, event_rx,
       load_returns, enqueued, dequeued, results, dequeued_at_close,
       fn_in, fn_out,
       state, git_tx, git_results, app_pc, last_call, applied, selected, key_log,
       mpc, term_flag, rx, stream, sent, draws, renders, restores, after_flag,
       exit_via, last_result, task_failed_sends,
       db >>

\* What the worker and its channels are made of.
worker_vars ==
    << wpc, repo_handle, request, payload, req_chan, request_tx, event_chan,
       event_rx, load_returns, enqueued, dequeued, results, dequeued_at_close >>

fn_vars == << fn_in, fn_out >>

\* The AppState, the channel ends it holds, and their history.
app_vars ==
    << state, git_tx, git_results, app_pc, last_call, applied, selected,
       key_log >>

\* main's event loop, the event task's input stream, and their history.
main_vars ==
    << mpc, term_flag, rx, stream, sent, draws, renders, restores, after_flag,
       exit_via, last_result, task_failed_sends >>

\* The database connection and the history of the calls made on it.
db_vars == << db >>

None == << >>

Some(x) == <<x>>

\* event.rs: AppEvent::GitResult(Box<GitResultPayload>).
GitResult(p) == [type |-> "GitResult", payload |-> p]

\* The worker's receiver lives until git_worker_loop returns.
request_rx == wpc # "done"

\* AsyncGit::new: the channel is created, the thread is spawned and has not yet
\* run; main holds the event receiver.
WorkerInit ==
    /\ wpc = "open"
    /\ repo_handle = "none"
    /\ request = None
    /\ payload = None
    /\ req_chan = << >>
    /\ request_tx = TRUE
    /\ event_chan = << >>
    /\ event_rx = TRUE
    /\ load_returns = << >>
    /\ enqueued = << >>
    /\ dequeued = 0
    /\ results = << >>
    /\ dequeued_at_close = -1

\* app.rs: impl Default for AppState (the diff panel's fields, and the fields
\* the key dispatcher branches on).
AppState_default ==
    [diff_mode |-> "Unstaged", diff_loading |-> FALSE, diff_scroll |-> 0,
     hunk_cursor |-> 0, hunk_offsets |-> << >>, diff_lines |-> << >>,
     file_summaries |-> << >>,
     mode |-> "Normal", focus |-> "FileList", has_unsaved_comments |-> FALSE,
     help_scroll |-> 0]

\* let mut state = AppState::default(), with state.git_tx wired to a worker
\* that has been sent nothing yet.
AppInit ==
    /\ state = AppState_default
    /\ git_tx = << >>
    /\ git_results = << >>
    /\ app_pc = "running"
    /\ last_call = "default"
    /\ applied = None
    /\ selected = None
    /\ key_log = None

\* main.rs: the state on entry to 'event_loop: the terminal is initialised,
\* the SIGTERM flag is registered and clear, the event task is spawned and
\* the channel is empty.
MainInit ==
    /\ mpc = "select"
    /\ term_flag = FALSE
    /\ rx = << >>
    /\ stream = "live"
    /\ sent = 0
    /\ draws = 0
    /\ renders = 0
    /\ restores = 0
    /\ after_flag = 0
    /\ exit_via = "none"
    /\ last_result = None
    /\ task_failed_sends = 0

\* open_db on a fresh file: migrate has created an empty sessions table.
DbInit == db = [sessions |-> {}, now |-> 0, calls |-> << >>]

Init ==
    /\ WorkerInit
    /\ fn_in = None
    /\ fn_out = None
    /\ AppInit
    /\ MainInit
    /\ DbInit

\* ---------------------------------------------------------------- UI side

\* A load_diff that cancels: the newer request replaces the one in flight.
load_diff_cancels(req) ==
    /\ request_tx
    /\ Len(load_returns) < MaxRequests
    /\ load_returns' = Append(load_returns, request_rx)
    /\ IF request_rx /\ request # None
       THEN /\ request' = Some(req)
            /\ payload' = None
            /\ wpc' = "handle"
            /\ enqueued' = Append(enqueued, req)
            /\ dequeued' = dequeued + 1
            /\ UNCHANGED req_chan
       ELSE /\ IF request_rx
               THEN /\ req_chan' = Append(req_chan, req)
                    /\ enqueued' = Append(enqueued, req)
               ELSE UNCHANGED << req_chan, enqueued >>
            /\ UNCHANGED << wpc, request, payload, dequeued >>
    /\ UNCHANGED << repo_handle, request_tx, event_chan, event_rx, results,
                    dequeued_at_close >>
    /\ UNCHANGED << fn_vars, app_vars, main_vars, db_vars >>

\* AsyncGit::load_diff: request_tx.send(request).is_ok().  The send fails once
\* the worker's receiver is gone.
load_diff(req) ==
    /\ request_tx
    /\ Len(load_returns) < MaxRequests
    /\ load_returns' = Append(load_returns, request_rx)
    /\ IF request_rx
       THEN /\ req_chan' = Append(req_chan, req)
            /\ enqueued' = Append(enqueued, req)
       ELSE UNCHANGED << req_chan, enqueued >>
    /\ UNCHANGED << wpc, repo_handle, request, payload, request_tx, event_chan, event_rx,
                    dequeued, results >>
    /\ UNCHANGED dequeued_at_close
    /\ UNCHANGED << fn_vars, app_vars, main_vars, db_vars >>

\* Dropping AsyncGit drops the only sender: the request channel disconnects.
drop_async_git ==
    /\ request_tx
    /\ request_tx' = FALSE
    /\ dequeued_at_close' = dequeued
    /\ UNCHANGED << wpc, repo_handle, request, payload, req_chan, event_chan, event_rx,
                    load_returns, enqueued, dequeued, results >>
    /\ UNCHANGED << fn_vars, app_vars, main_vars, db_vars >>

\* main.rs: rx.recv() hands the main loop the next event.
main_recv ==
    /\ event_rx
    /\ event_chan # << >>
    /\ event_chan' = Tail(event_chan)
    /\ UNCHANGED << wpc, repo_handle, request, payload, req_chan, request_tx, event_rx,
                    load_returns, enqueued, dequeued, results >>
    /\ UNCHANGED dequeued_at_close
    /\ UNCHANGED << fn_vars, app_vars, main_vars, db_vars >>

\* The main loop ends and its receiver is dropped with whatever it still held.
drop_event_rx ==
    /\ event_rx
    /\ event_rx' = FALSE
    /\ event_chan' = << >>
    /\ UNCHANGED << wpc, repo_handle, request, payload, req_chan, request_tx,
                    load_returns, enqueued, dequeued, results >>
    /\ UNCHANGED dequeued_at_close
    /\ UNCHANGED << fn_vars, app_vars, main_vars, db_vars >>

\* -------------------------------------------------------------- the worker

\* An open whose error is not checked: the loop is entered either way.
worker_open_ignores_err(ok) ==
    /\ wpc = "open"
    /\ wpc' = "recv"
    /\ repo_handle' = IF ok THEN "open" ELSE "failed"
    /\ UNCHANGED << request, payload, req_chan, request_tx, event_chan, event_rx,
                    load_returns, enqueued, dequeued, results, dequeued_at_close >>
    /\ UNCHANGED << fn_vars, app_vars, main_vars, db_vars >>

\* Repository::open(&path): Ok enters the loop, Err returns (dropping rx and
\* with it every queued request).
worker_open(ok) ==
    /\ wpc = "open"
    /\ IF ok
       THEN /\ wpc' = "recv"
            /\ repo_handle' = "open"
            /\ UNCHANGED req_chan
       ELSE /\ wpc' = "done"
            /\ repo_handle' = "failed"
            /\ req_chan' = << >>
    /\ UNCHANGED << request, payload, request_tx, event_chan, event_rx,
                    load_returns, enqueued, dequeued, results >>
    /\ UNCHANGED dequeued_at_close
    /\ UNCHANGED << fn_vars, app_vars, main_vars, db_vars >>

\* A receive that takes the newest queued request instead of the oldest.
worker_recv_newest ==
    /\ wpc = "recv"
    /\ req_chan # << >>
    /\ request' = Some(req_chan[Len(req_chan)])
    /\ req_chan' = SubSeq(req_chan, 1, Len(req_chan) - 1)
    /\ dequeued' = dequeued + 1
    /\ wpc' = "handle"
    /\ UNCHANGED << repo_handle, payload, request_tx, event_chan, event_rx,
                    load_returns, enqueued, results, dequeued_at_close >>
    /\ UNCHANGED << fn_vars, app_vars, main_vars, db_vars >>

\* `for request in rx`: the iterator yields the next queued request.
worker_recv ==
    /\ wpc = "recv"
    /\ req_chan # << >>
    /\ request' = Some(Head(req_chan))
    /\ req_chan' = Tail(req_chan)
    /\ dequeued' = dequeued + 1
    /\ wpc' = "handle"
    /\ UNCHANGED << repo_handle, payload, request_tx, event_chan, event_rx,
                    load_returns, enqueued, results >>
    /\ UNCHANGED dequeued_at_close
    /\ UNCHANGED << fn_vars, app_vars, main_vars, db_vars >>

\* A loop that stops as soon as the sender is gone, leaving the queue undrained.
worker_exit_on_close ==
    /\ wpc = "recv"
    /\ ~request_tx
    /\ wpc' = "done"
    /\ repo_handle' = "released"
    /\ req_chan' = << >>
    /\ UNCHANGED << request, payload, request_tx, event_chan, event_rx,
                    load_returns, enqueued, dequeued, results, dequeued_at_close >>
    /\ UNCHANGED << fn_vars, app_vars, main_vars, db_vars >>

\* A loop that does not notice the disconnect and keeps waiting.
worker_exit_never ==
    /\ wpc = "recv"
    /\ req_chan = << >>
    /\ ~request_tx
    /\ UNCHANGED vars

\* `for request in rx`: the iterator ends when the channel is disconnected and
\* empty; git_worker_loop returns and `repo` is dropped.
worker_exit ==
    /\ wpc = "recv"
    /\ req_chan = << >>
    /\ ~request_tx
    /\ wpc' = "done"
    /\ repo_handle' = "released"
    /\ UNCHANGED << request, payload, req_chan, request_tx, event_chan, event_rx,
                    load_returns, enqueued, dequeued, results >>
    /\ UNCHANGED dequeued_at_close
    /\ UNCHANGED << fn_vars, app_vars, main_vars, db_vars >>

\* A handler that sends nothing when resolution fails.
worker_handle_silent_on_err(repo) ==
    /\ wpc = "handle"
    /\ IF resolve(repo, request[1]).ok
       THEN /\ payload' = Some(handle_request(repo, request[1]))
            /\ wpc' = "send"
            /\ UNCHANGED request
       ELSE /\ payload' = None
            /\ request' = None
            /\ wpc' = "recv"
    /\ UNCHANGED << repo_handle, req_chan, request_tx, event_chan,
                    event_rx, load_returns, enqueued, dequeued, results,
                    dequeued_at_close >>
    /\ UNCHANGED << fn_vars, app_vars, main_vars, db_vars >>

\* A handler for which a resolution failure ends the worker.
worker_handle_fatal_on_err(repo) ==
    /\ wpc = "handle"
    /\ IF resolve(repo, request[1]).ok
       THEN /\ payload' = Some(handle_request(repo, request[1]))
            /\ wpc' = "send"
            /\ UNCHANGED << request, repo_handle, req_chan >>
       ELSE /\ payload' = None
            /\ request' = None
            /\ wpc' = "done"
            /\ repo_handle' = "released"
            /\ req_chan' = << >>
    /\ UNCHANGED << request_tx, event_chan, event_rx, load_returns, enqueued,
                    dequeued, results, dequeued_at_close >>
    /\ UNCHANGED << fn_vars, app_vars, main_vars, db_vars >>

\* let payload = handle_request(&repo, request);
worker_handle(repo) ==
    /\ wpc = "handle"
    /\ payload' = Some(handle_request(repo, request[1]))
    /\ wpc' = "send"
    /\ UNCHANGED << repo_handle, request, req_chan, request_tx, event_chan,
                    event_rx, load_returns, enqueued, dequeued, results >>
    /\ UNCHANGED dequeued_at_close
    /\ UNCHANGED << fn_vars, app_vars, main_vars, db_vars >>

\* A send whose failure ends the loop.
worker_send_exits_on_err ==
    /\ wpc = "send"
    /\ event_chan' = IF event_rx THEN Append(event_chan, GitResult(payload[1]))
                     ELSE event_chan
    /\ results' = Append(results, [payload |-> payload[1], delivered |-> event_rx])
    /\ request' = None
    /\ payload' = None
    /\ IF event_rx
       THEN /\ wpc' = "recv"
            /\ UNCHANGED << repo_handle, req_chan >>
       ELSE /\ wpc' = "done"
            /\ repo_handle' = "released"
            /\ req_chan' = << >>
    /\ UNCHANGED << request_tx, event_rx, load_returns, enqueued, dequeued,
                    dequeued_at_close >>
    /\ UNCHANGED << fn_vars, app_vars, main_vars, db_vars >>

\* let _ = event_tx.send(AppEvent::GitResult(Box::new(payload)));
\* the send fails when the receiver is gone, and the error is discarded.
worker_send ==
    /\ wpc = "send"
    /\ event_chan' = IF event_rx THEN Append(event_chan, GitResult(payload[1]))
                     ELSE event_chan
    /\ results' = Append(results, [payload |-> payload[1], delivered |-> event_rx])
    /\ request' = None
    /\ payload' = None
    /\ wpc' = "recv"
    /\ UNCHANGED << repo_handle, req_chan, request_tx, event_rx,
                    load_returns, enqueued, dequeued >>
    /\ UNCHANGED dequeued_at_close
    /\ UNCHANGED << fn_vars, app_vars, main_vars, db_vars >>

git_worker_loop ==
    \/ \E ok \in BOOLEAN : worker_open(ok)
    \/ worker_recv
    \/ worker_exit
    \/ \E repo \in Repository : worker_handle(repo)
    \/ worker_send

Next ==
    \/ \E req \in GitRequest : load_diff(req)
    \/ drop_async_git
    \/ main_recv
    \/ drop_event_rx
    \/ git_worker_loop

Spec == Init /\ [][Next]_vars

\* handle_request applied on its own to every request and repository condition.
ResolveInit ==
    /\ WorkerInit
    /\ fn_in \in [repo : RepositoryOver(AllDiffs), request : GitRequest]
    /\ fn_out = None
    /\ AppInit
    /\ MainInit
    /\ DbInit

apply_handle_request ==
    /\ fn_in # None
    /\ fn_out = None
    /\ fn_out' = Some(handle_request(fn_in.repo, fn_in.request))
    /\ UNCHANGED << fn_in, worker_vars, app_vars, main_vars, db_vars >>

ResolveSpec == ResolveInit /\ [][apply_handle_request]_vars

\* process_diff, extract_hunks and extract_files applied on their own to every
\* bounded diff.
ExtractInit ==
    /\ WorkerInit
    /\ fn_in \in [diff : BoundedDiffs]
    /\ fn_out = None
    /\ AppInit
    /\ MainInit
    /\ DbInit

apply_process_diff ==
    /\ fn_out = None
    /\ fn_out' = Some([fn |-> "process_diff",
                       ret |-> process_diff("Unstaged", fn_in.diff)])
    /\ UNCHANGED << fn_in, worker_vars, app_vars, main_vars, db_vars >>

\* diff.foreach either completes (n is the number of callbacks the diff has)
\* or reports an error after n of them.
apply_extract_hunks(n) ==
    /\ fn_out = None
    /\ fn_out' = Some([fn |-> "extract_hunks", calls |-> n,
                       ret |-> extract_hunks_upto(fn_in.diff, n)])
    /\ UNCHANGED << fn_in, worker_vars, app_vars, main_vars, db_vars >>

apply_extract_files(n) ==
    /\ fn_out = None
    /\ fn_out' = Some([fn |-> "extract_files", calls |-> n,
                       ret |-> extract_files_upto(fn_in.diff, n)])
    /\ UNCHANGED << fn_in, worker_vars, app_vars, main_vars, db_vars >>

ExtractNext ==
    \/ apply_process_diff
    \/ \E n \in 0..Len(foreach(fn_in.diff)) : apply_extract_hunks(n)
    \/ \E n \in 0..Len(foreach(fn_in.diff)) : apply_extract_files(n)

ExtractSpec == ExtractInit /\ [][ExtractNext]_vars

\* highlight_hunks applied on its own to every bounded hunk list, with the
\* theme found (TS.themes holds one) and with no theme at all.
HighlightInit ==
    /\ WorkerInit
    /\ fn_in \in [hunks : BoundedHunks, ext : {"rs"}, theme : BOOLEAN]
    /\ fn_out = None
    /\ AppInit
    /\ MainInit
    /\ DbInit

apply_highlight_hunks ==
    /\ fn_out = None
    /\ fn_out' = Some([fn |-> "highlight_hunks",
                       ret |-> highlight_hunks(fn_in.hunks, fn_in.ext, fn_in.theme)])
    /\ UNCHANGED << fn_in, worker_vars, app_vars, main_vars, db_vars >>

HighlightSpec == HighlightInit /\ [][apply_highlight_hunks]_vars

\* ------------------------------------------------------ airev-core db.rs

\* The (repo_path, diff_mode, diff_args) arguments of the calls: one triple
\* and the three that differ from it in one component.
Keys ==
    { [repo_path |-> "/tmp/test-repo", diff_mode |-> "staged", diff_args |-> ""],
      [repo_path |-> "/tmp/other-repo", diff_mode |-> "staged", diff_args |-> ""],
      [repo_path |-> "/tmp/test-repo", diff_mode |-> "head", diff_args |-> ""],
      [repo_path |-> "/tmp/test-repo", diff_mode |-> "staged", diff_args |-> "main..dev"] }

\* uuid::Uuid::new_v4(): a value no row of the table has yet.
UuidTable == <<"uuid-1", "uuid-2", "uuid-3", "uuid-4", "uuid-5">>

Uuids == {UuidTable[i] : i \in 1..MaxCalls}

Session(id, key, created_at, updated_at) ==
    [id |-> id, repo_path |-> key.repo_path, diff_mode |-> key.diff_mode,
     diff_args |-> key.diff_args, created_at |-> created_at,
     updated_at |-> updated_at]

\* The SELECT matching on repo_path and diff_mode alone.
existing_ignores_diff_args(sessions, key) ==
    LET matching == {r \in sessions : /\ r.repo_path = key.repo_path
                                      /\ r.diff_mode = key.diff_mode}
    IN  {r \in matching : \A q \in matching : q.updated_at <= r.updated_at}

\* SELECT .. WHERE repo_path = ?1 AND diff_mode = ?2 AND diff_args = ?3
\* ORDER BY updated_at DESC LIMIT 1: the rows the query may return (one of the
\* most recently updated matching rows); empty when none matches.
existing(sessions, key) ==
    LET matching == {r \in sessions : /\ r.repo_path = key.repo_path
                                      /\ r.diff_mode = key.diff_mode
                                      /\ r.diff_args = key.diff_args}
    IN  {r \in matching : \A q \in matching : q.updated_at <= r.updated_at}

\* One call run to completion on the connection's thread; now_secs() reads
\* `now`, which has advanced by dt since the previous call.
detect_or_create_session(key, dt, uuid) ==
    /\ Len(db.calls) < MaxCalls
    /\ LET now == db.now + dt
           found == existing(db.sessions, key)
           Called(sessions, ret) ==
               [sessions |-> sessions, now |-> now,
                calls |-> Append(db.calls,
                            [key |-> key, ret |-> ret,
                             rows_before |-> Cardinality(db.sessions),
                             rows_after |-> Cardinality(sessions)])]
       IN  IF found # {}
           THEN \E session \in found :
                   db' = Called((db.sessions \ {session})
                                   \cup {[session EXCEPT !.updated_at = now]},
                                session)
           ELSE /\ \A r \in db.sessions : r.id # uuid
                /\ db' = Called(db.sessions \cup {Session(uuid, key, now, now)},
                                Session(uuid, key, now, now))
    /\ UNCHANGED << worker_vars, fn_vars, app_vars, main_vars >>

DbNext ==
    \E key \in Keys, dt \in 0..1, uuid \in Uuids :
        detect_or_create_session(key, dt, uuid)

DbSpec == Init /\ [][DbNext]_vars

\* -------------------------------------- the database file and two connections

\* The database file: the rows of schema_version, which sessions table it has
\* ("none", "legacy": integer id, repo_path, created_at only, or "v1"), the
\* rows of sessions and the rows of file_review_state.
FreshFile ==
    [versions |-> {}, sessions_schema |-> "none", sessions |-> {}, review |-> {}]

\* The file of the lifecycle test's legacy database.
LegacyFile ==
    [versions |-> {}, sessions_schema |-> "legacy",
     sessions |-> {[id |-> 1, repo_path |-> "/old", created_at |-> "2024-01-01"]},
     review |-> {}]

MaxOf(S) == CHOOSE x \in S : \A y \in S : y <= x

\* schema.rs migrate: schema_version is created if missing; below version 1
\* the v1 DDL runs, every table of it under CREATE TABLE IF NOT EXISTS, and
\* version 1 is recorded.
migrate(file) ==
    LET version == IF file.versions = {} THEN 0 ELSE MaxOf(file.versions)
    IN  IF version < 1
        THEN [file EXCEPT
                 !.sessions_schema = IF @ = "none" THEN "v1" ELSE @,
                 !.versions = @ \cup {1}]
        ELSE file

\* The processes holding a connection to the file.
Conns == {"tui", "mcp"}

\* The triples the two connections ask for.
StoreKeys == {k \in Keys : k.repo_path = "/tmp/test-repo" /\ k.diff_args = ""}

Closed == [pc |-> "closed", key |-> None, found |-> None]

StoreInit ==
    /\ WorkerInit
    /\ fn_in = None
    /\ fn_out = None
    /\ AppInit
    /\ MainInit
    /\ \E origin \in {"fresh", "legacy"} :
          db = [origin |-> origin,
                file |-> IF origin = "fresh" THEN FreshFile ELSE LegacyFile,
                conns |-> [c \in Conns |-> Closed],
                now |-> 0,
                calls |-> << >>]

\* The detect_or_create_session calls begun so far.
Begun ==
    Len(db.calls) + Cardinality({c \in Conns : db.conns[c].pc = "selected"})

\* open_db: the pragmas, the WAL checkpoint, then migrate.
open_db(c) ==
    /\ db.conns[c].pc = "closed"
    /\ db' = [db EXCEPT !.file = migrate(@), !.conns[c].pc = "idle"]
    /\ UNCHANGED << worker_vars, fn_vars, app_vars, main_vars >>

\* detect_or_create_session up to the end of its SELECT, which runs in
\* autocommit before any transaction is begun.  On a sessions table without
\* the diff_mode column the statement fails to prepare and `?` returns Err.
session_select(c, key) ==
    /\ db.conns[c].pc = "idle"
    /\ Begun < MaxCalls
    /\ IF db.file.sessions_schema # "v1"
       THEN db' = [db EXCEPT !.calls =
                      Append(@, [conn |-> c, key |-> key, ok |-> FALSE,
                                 session |-> None])]
       ELSE LET found == existing(db.file.sessions, key)
            IN  \E hit \in (IF found = {} THEN {None}
                               ELSE {Some(r) : r \in found}) :
                   db' = [db EXCEPT !.conns[c] =
                             [pc |-> "selected", key |-> key, found |-> hit]]
    /\ UNCHANGED << worker_vars, fn_vars, app_vars, main_vars >>

\* The rest of detect_or_create_session: one BEGIN IMMEDIATE transaction,
\* the UPDATE of the row found or the INSERT of a row with a new uuid.
session_write(c, dt, uuid) ==
    /\ db.conns[c].pc = "selected"
    /\ LET now == db.now + dt
           key == db.conns[c].key
           found == db.conns[c].found
           Done(sessions, ret) ==
               [db EXCEPT !.file.sessions = sessions,
                          !.now = now,
                          !.conns[c] = [pc |-> "idle", key |-> None, found |-> None],
                          !.calls = Append(@, [conn |-> c, key |-> key, ok |-> TRUE,
                                               session |-> Some(ret)])]
       IN  IF found # None
           THEN db' = Done({IF r.id = found[1].id
                            THEN [r EXCEPT !.updated_at = now] ELSE r :
                               r \in db.file.sessions},
                           found[1])
           ELSE /\ \A r \in db.file.sessions : r.id # uuid
                /\ db' = Done(db.file.sessions \cup {Session(uuid, key, now, now)},
                              Session(uuid, key, now, now))
    /\ UNCHANGED << worker_vars, fn_vars, app_vars, main_vars >>

StoreNext ==
    \/ \E c \in Conns : open_db(c)
    \/ \E c \in Conns, key \in StoreKeys : session_select(c, key)
    \/ \E c \in Conns, dt \in 0..1, uuid \in Uuids : session_write(c, dt, uuid)

StoreSpec == StoreInit /\ [][StoreNext]_vars

\* ------------------------------------------------------ file_review_state

\* rusqlite's ToSql / FromSql for bool: stored as INTEGER 0 or 1, read back as
\* "not zero".
bool_to_sql(b) == IF b THEN 1 ELSE 0

bool_from_sql(i) == i # 0

Files == {"src/main.rs", "src/lib.rs"}

\* The two sessions the file holds when the toggles begin.
ReviewSessions ==
    { Session(UuidTable[1],
              [repo_path |-> "/tmp/test-repo", diff_mode |-> "staged", diff_args |-> ""],
              0, 0),
      Session(UuidTable[2],
              [repo_path |-> "/tmp/test-repo", diff_mode |-> "head", diff_args |-> ""],
              0, 0) }

\* A file open_db has migrated and detect_or_create_session has been called
\* on for two triples; no file has been toggled yet.
ReviewInit ==
    /\ WorkerInit
    /\ fn_in = None
    /\ fn_out = None
    /\ AppInit
    /\ MainInit
    /\ db = [file |-> [migrate(FreshFile) EXCEPT !.sessions = ReviewSessions],
             opens |-> 1,
             now |-> 0,
             calls |-> << >>]

\* load_file_review_state: the (file_path, reviewed) pairs of one session.
load_file_review_state(file, session_id) ==
    {<<r.file_path, bool_from_sql(r.reviewed)>> :
        r \in {q \in file.review : q.session_id = session_id}}

\* INSERT OR IGNORE: a row already there is kept as it is.
upsert_keeps_existing(review, row) ==
    IF \E r \in review : r.session_id = row.session_id /\ r.file_path = row.file_path
    THEN review
    ELSE review \cup {row}

\* INSERT .. ON CONFLICT(session_id, file_path) DO UPDATE SET reviewed,
\* reviewed_at: the row of the pair is replaced, or added when there is none.
upsert(review, row) ==
    {r \in review : ~(r.session_id = row.session_id /\ r.file_path = row.file_path)}
        \cup {row}

\* toggle_file_reviewed on a session of the table (session_id REFERENCES
\* sessions(id) with foreign_keys = ON), run to completion on the
\* connection's thread.
toggle_file_reviewed(session_id, file_path, dt) ==
    /\ Len(db.calls) < MaxCalls
    /\ \E s \in db.file.sessions : s.id = session_id
    /\ LET now == db.now + dt
           rows == {r \in db.file.review :
                       r.session_id = session_id /\ r.file_path = file_path}
           current == IF rows = {} THEN FALSE
                      ELSE bool_from_sql((CHOOSE r \in rows : TRUE).reviewed)
           new_state == ~current
           reviewed_at == IF new_state THEN Some(now) ELSE None
           review == upsert(db.file.review,
                            [session_id |-> session_id, file_path |-> file_path,
                             reviewed |-> bool_to_sql(new_state),
                             reviewed_at |-> reviewed_at])
       IN  db' = [db EXCEPT
                     !.file.review = review,
                     !.now = now,
                     !.calls = Append(@, [op |-> "toggle", session_id |-> session_id,
                                          file_path |-> file_path, ret |-> new_state,
                                          before |-> db.file.review,
                                          after |-> review])]
    /\ UNCHANGED << worker_vars, fn_vars, app_vars, main_vars >>

\* The connection is dropped and open_db is called on the file again.
reopen_db ==
    /\ Len(db.calls) < MaxCalls
    /\ db' = [db EXCEPT
                 !.file = migrate(@),
                 !.opens = @ + 1,
                 !.calls = Append(@, [op |-> "open_db", session_id |-> "",
                                      file_path |-> "", ret |-> TRUE,
                                      before |-> db.file.review,
                                      after |-> migrate(db.file).review])]
    /\ UNCHANGED << worker_vars, fn_vars, app_vars, main_vars >>

ReviewNext ==
    \/ \E session_id \in {s.id : s \in ReviewSessions}, file_path \in Files,
          dt \in 0..1 : toggle_file_reviewed(session_id, file_path, dt)
    \/ reopen_db

ReviewSpec == ReviewInit /\ [][ReviewNext]_vars

\* The worker thread is scheduled, and every native git operation returns.
FairSpec == Spec /\ WF_vars(git_worker_loop)

TypeOK ==
    /\ wpc \in {"open", "recv", "handle", "send", "done"}
    /\ repo_handle \in {"none", "open", "failed", "released"}
    /\ Len(request) <= 1
    /\ Len(payload) <= 1
    /\ request_tx \in BOOLEAN
    /\ event_rx \in BOOLEAN
    /\ dequeued \in 0..MaxRequests

\* ----------------------------------------------------------------- AppState

\* crossterm KeyEvent: the key code and whether Ctrl is held.
KeyEvent(code) == [code |-> code, ctrl |-> FALSE]

\* What key_log keeps of one handle_key call: the key, the mode and the
\* unsaved-comments flag it found, and the KeyAction it returned ("panic" when
\* it did not return).
returned(key, self, action) ==
    Some([key |-> key, mode |-> self.mode,
          has_unsaved_comments |-> self.has_unsaved_comments, action |-> action])

\* keybindings.rs, the Tab arm: the mode that follows `mode` in the cycle.
next_mode(mode) ==
    CASE mode = "Unstaged" -> "Staged"
      [] mode = "Staged" -> "BranchComparison"
      [] mode = "BranchComparison" -> "CommitRange"
      [] mode = "CommitRange" -> "Unstaged"

\* usize::saturating_sub.
saturating_sub(a, b) == IF a >= b THEN a - b ELSE 0

Min(a, b) == IF a <= b THEN a ELSE b

\* An apply_git_result that drops a payload whose mode is not the selected one.
apply_git_result_discards_stale(self, p) ==
    IF self.diff_mode # p.mode THEN self
    ELSE [self EXCEPT !.file_summaries = p.files,
                      !.diff_lines = p.highlighted_lines,
                      !.hunk_offsets = p.hunk_offsets,
                      !.diff_loading = FALSE]

\* app.rs: AppState::apply_git_result.
apply_git_result(self, p) ==
    LET mode_changed == self.diff_mode # p.mode
    IN  [self EXCEPT !.diff_mode = p.mode,
                     !.file_summaries = p.files,
                     !.diff_lines = p.highlighted_lines,
                     !.hunk_offsets = p.hunk_offsets,
                     !.diff_loading = FALSE,
                     !.diff_scroll = IF mode_changed THEN 0 ELSE @,
                     !.hunk_cursor = IF mode_changed THEN 0 ELSE @]

\* app.rs: AppState::next_hunk.  Vec indices count from 0, sequences from 1.
next_hunk(self) ==
    IF self.hunk_offsets = << >> THEN self
    ELSE LET cursor == Min(self.hunk_cursor + 1, Len(self.hunk_offsets) - 1)
         IN  [self EXCEPT !.hunk_cursor = cursor,
                          !.diff_scroll = self.hunk_offsets[cursor + 1]]

\* app.rs: AppState::prev_hunk indexes hunk_offsets with the decremented
\* cursor; the index is out of bounds when the cursor was left beyond a
\* shorter vector.
prev_hunk_panics(self) ==
    /\ self.hunk_offsets # << >>
    /\ saturating_sub(self.hunk_cursor, 1) >= Len(self.hunk_offsets)

prev_hunk(self) ==
    IF self.hunk_offsets = << >> THEN self
    ELSE LET cursor == saturating_sub(self.hunk_cursor, 1)
         IN  [self EXCEPT !.hunk_cursor = cursor,
                          !.diff_scroll = self.hunk_offsets[cursor + 1]]

\* handle_file_list_key, KeyCode::Tab: select the next mode, mark the diff as
\* loading, scroll to the top and send LoadDiff(next_mode) through git_tx.
press_tab(key) ==
    /\ app_pc = "running"
    /\ state.mode = "Normal"
    /\ key.code = "Tab"
    /\ Len(git_tx) + Len(git_results) < MaxPending
    /\ state' = [state EXCEPT !.diff_mode = next_mode(state.diff_mode),
                               !.diff_loading = TRUE,
                               !.diff_scroll = 0]
    /\ git_tx' = Append(git_tx, LoadDiff(next_mode(state.diff_mode)))
    /\ last_call' = "tab"
    /\ selected' = Some(next_mode(state.diff_mode))
    /\ key_log' = returned(key, state, "Continue")
    /\ UNCHANGED << git_results, app_pc, applied >>
    /\ UNCHANGED << worker_vars, fn_vars, main_vars, db_vars >>

\* handle_normal, KeyCode::Char(']').
press_next_hunk(key) ==
    /\ app_pc = "running"
    /\ state.mode = "Normal"
    /\ key.code = "]"
    /\ state' = next_hunk(state)
    /\ last_call' = "next_hunk"
    /\ key_log' = returned(key, state, "Continue")
    /\ UNCHANGED << git_tx, git_results, app_pc, applied, selected >>
    /\ UNCHANGED << worker_vars, fn_vars, main_vars, db_vars >>

\* handle_normal, KeyCode::Char('[').
press_prev_hunk(key) ==
    /\ app_pc = "running"
    /\ state.mode = "Normal"
    /\ key.code = "["
    /\ IF prev_hunk_panics(state)
       THEN /\ app_pc' = "panicked"
            /\ state' = [state EXCEPT
                            !.hunk_cursor = saturating_sub(state.hunk_cursor, 1)]
            /\ key_log' = returned(key, state, "panic")
       ELSE /\ state' = prev_hunk(state)
            /\ key_log' = returned(key, state, "Continue")
            /\ UNCHANGED app_pc
    /\ last_call' = "prev_hunk"
    /\ UNCHANGED << git_tx, git_results, applied, selected >>
    /\ UNCHANGED << worker_vars, fn_vars, main_vars, db_vars >>

\* handle_file_list_key, Enter or l with the focus on the file list and a row
\* selected: jump_to_selected_file puts the diff view and the hunk cursor at
\* the top.  The list selection itself is not part of this state.
press_jump(key) ==
    /\ app_pc = "running"
    /\ state.mode = "Normal"
    /\ key.code \in {"Enter", "l"}
    /\ state.focus = "FileList"
    /\ state' = [state EXCEPT !.diff_scroll = 0, !.hunk_cursor = 0]
    /\ last_call' = "jump_to_selected_file"
    /\ key_log' = returned(key, state, "Continue")
    /\ UNCHANGED << git_tx, git_results, app_pc, applied, selected >>
    /\ UNCHANGED << worker_vars, fn_vars, main_vars, db_vars >>

\* The worker behind git_tx answers the oldest request: handle_request on the
\* repository as it finds it, and the payload is sent as a GitResult.
answer_request(repo) ==
    /\ app_pc = "running"
    /\ git_tx # << >>
    /\ git_results' = Append(git_results, handle_request(repo, Head(git_tx)))
    /\ git_tx' = Tail(git_tx)
    /\ UNCHANGED << state, app_pc, last_call, applied, selected, key_log >>
    /\ UNCHANGED << worker_vars, fn_vars, main_vars, db_vars >>

\* A GitResult arm that takes the newest result first.
on_git_result_newest_first ==
    /\ app_pc = "running"
    /\ git_results # << >>
    /\ state' = apply_git_result(state, git_results[Len(git_results)])
    /\ git_results' = SubSeq(git_results, 1, Len(git_results) - 1)
    /\ applied' = Some(git_results[Len(git_results)])
    /\ last_call' = "apply_git_result"
    /\ UNCHANGED << git_tx, app_pc, selected, key_log >>
    /\ UNCHANGED << worker_vars, fn_vars, main_vars, db_vars >>

\* The GitResult arm: state.apply_git_result(*payload).
on_git_result ==
    /\ app_pc = "running"
    /\ git_results # << >>
    /\ state' = apply_git_result(state, Head(git_results))
    /\ git_results' = Tail(git_results)
    /\ applied' = Some(Head(git_results))
    /\ last_call' = "apply_git_result"
    /\ UNCHANGED << git_tx, app_pc, selected, key_log >>
    /\ UNCHANGED << worker_vars, fn_vars, main_vars, db_vars >>

AppNext ==
    \/ press_tab(KeyEvent("Tab"))
    \/ press_next_hunk(KeyEvent("]"))
    \/ press_prev_hunk(KeyEvent("["))
    \/ \E code \in {"Enter", "l"} : press_jump(KeyEvent(code))
    \/ \E repo \in RepositoryOver(AllDiffs) : answer_request(repo)
    \/ on_git_result

\* The key handlers and apply_git_result driving one AppState.
AppSpec == Init /\ [][AppNext]_vars

\* ------------------------------------------------------- the key dispatcher

\* How far the scroll keys are followed.
MaxScroll == 2

\* The largest viewport height the renderer is taken to have cached.
MaxViewport == 2

\* keybindings.rs, handle_help, 'G': state.help_scroll = u16::MAX.
U16_MAX == 65535

\* app.rs: enum Mode.
Mode == {"Normal", "Insert", "HelpOverlay", "ConfirmQuit"}

\* The key codes the handlers name, and "x" for every other key.
KeyCodes ==
    {"j", "k", "g", "G", "d", "u", "f", "b", "Enter", "l", "Tab", "H", "L",
     "{", "}", "[", "]", "<", ">", "?", "q", "Esc", "y", "Y", "n", "N", "x"}

\* Ctrl is held only where a handler looks at it (d / u / f / b), and with q.
KeyEvents ==
    {KeyEvent(code) : code \in KeyCodes} \cup
    {[code |-> code, ctrl |-> TRUE] : code \in {"d", "u", "f", "b", "q"}}

\* app.rs: PanelFocus::prev.
PanelFocus_prev(focus) ==
    CASE focus = "FileList" -> "Comments"
      [] focus = "Diff" -> "FileList"
      [] focus = "Comments" -> "Diff"

\* app.rs: PanelFocus::next.
PanelFocus_next(focus) ==
    CASE focus = "FileList" -> "Diff"
      [] focus = "Diff" -> "Comments"
      [] focus = "Comments" -> "FileList"

\* app.rs: AppState::scroll_down.  The list selection and comments_scroll are
\* not part of this state; diff_scroll does not reach usize::MAX here.
scroll_down(self, lines) ==
    IF self.focus = "Diff" THEN [self EXCEPT !.diff_scroll = @ + lines] ELSE self

\* app.rs: AppState::scroll_up.
scroll_up(self, lines) ==
    IF self.focus = "Diff"
    THEN [self EXCEPT !.diff_scroll = saturating_sub(@, lines)]
    ELSE self

\* app.rs: AppState::scroll_top.
scroll_top(self) ==
    IF self.focus = "Diff" THEN [self EXCEPT !.diff_scroll = 0] ELSE self

\* app.rs: AppState::scroll_bottom.
scroll_bottom(self) ==
    IF self.focus = "Diff"
    THEN [self EXCEPT !.diff_scroll = saturating_sub(Len(self.diff_lines), 1)]
    ELSE self

\* handle_scroll_key returns Some: j / k / g / G, and d / u / f / b with Ctrl.
is_scroll_key(key) ==
    \/ key.code \in {"j", "k", "g", "G"}
    \/ key.code \in {"d", "u", "f", "b"} /\ key.ctrl

\* handle_file_list_key returns Some: Enter / l on the file list, and Tab.
is_file_list_key(key, self) ==
    \/ key.code \in {"Enter", "l"} /\ self.focus = "FileList"
    \/ key.code = "Tab"

\* keybindings.rs: handle_scroll_key, the state a scroll key leaves.  The
\* page keys call half_page_down, half_page_up, full_page_down and
\* full_page_up of app.rs, which scroll by half.max(1) or full.max(1) rows of
\* `height`, the focused panel's cached viewport height.
scrolled(key, self, height) ==
    LET half == IF height \div 2 >= 1 THEN height \div 2 ELSE 1
        full == IF height >= 1 THEN height ELSE 1
    IN  CASE key.code = "j" -> scroll_down(self, 1)
          [] key.code = "k" -> scroll_up(self, 1)
          [] key.code = "g" -> scroll_top(self)
          [] key.code = "G" -> scroll_bottom(self)
          [] key.code = "d" -> scroll_down(self, half)
          [] key.code = "u" -> scroll_up(self, half)
          [] key.code = "f" -> scroll_down(self, full)
          [] key.code = "b" -> scroll_up(self, full)

\* keybindings.rs: handle_scroll_key.  Every scroll key returns Continue.
handle_scroll_key(key) ==
    /\ app_pc = "running"
    /\ is_scroll_key(key)
    /\ \E height \in 0..MaxViewport :
          /\ scrolled(key, state, height).diff_scroll <= MaxScroll
          /\ state' = scrolled(key, state, height)
    /\ key_log' = returned(key, state, "Continue")
    /\ last_call' = "scroll"
    /\ UNCHANGED << git_tx, git_results, app_pc, applied, selected >>
    /\ UNCHANGED << worker_vars, fn_vars, main_vars, db_vars >>

\* keybindings.rs: handle_file_list_key, the keys it consumes.
handle_file_list_key(key) ==
    \/ press_jump(key)
    \/ press_tab(key)

\* keybindings.rs: handle_normal, the arms of its own match other than the
\* two hunk keys: the state they leave and the KeyAction they return.  The
\* file selection and the panel widths are not part of this state.
handle_normal_match(key, self) ==
    CASE key.code = "H" ->
            [state |-> [self EXCEPT !.focus = PanelFocus_prev(@)],
             action |-> "Continue"]
      [] key.code = "L" ->
            [state |-> [self EXCEPT !.focus = PanelFocus_next(@)],
             action |-> "Continue"]
      [] key.code = "?" ->
            [state |-> [self EXCEPT !.help_scroll = 0, !.mode = "HelpOverlay"],
             action |-> "Continue"]
      [] key.code \in {"q", "Esc"} ->
            IF self.has_unsaved_comments
            THEN [state |-> [self EXCEPT !.mode = "ConfirmQuit"],
                  action |-> "Continue"]
            ELSE [state |-> self, action |-> "Quit"]
      [] OTHER -> [state |-> self, action |-> "Continue"]

\* keybindings.rs: handle_help.
handle_help(key, self) ==
    CASE key.code = "j" ->
            [state |-> [self EXCEPT !.help_scroll =
                                        IF @ >= U16_MAX THEN U16_MAX ELSE @ + 1],
             action |-> "Continue"]
      [] key.code = "k" ->
            [state |-> [self EXCEPT !.help_scroll = saturating_sub(@, 1)],
             action |-> "Continue"]
      [] key.code = "g" ->
            [state |-> [self EXCEPT !.help_scroll = 0], action |-> "Continue"]
      [] key.code = "G" ->
            [state |-> [self EXCEPT !.help_scroll = U16_MAX],
             action |-> "Continue"]
      [] key.code \in {"?", "Esc", "q"} ->
            [state |-> [self EXCEPT !.mode = "Normal"], action |-> "Continue"]
      [] OTHER -> [state |-> self, action |-> "Continue"]

\* A confirmation dialog that takes any key but n / N / Esc as a yes.
handle_confirm_quit_any_key(key, self) ==
    IF key.code \in {"n", "N", "Esc"}
    THEN [state |-> [self EXCEPT !.mode = "Normal"], action |-> "Continue"]
    ELSE [state |-> self, action |-> "Quit"]

\* keybindings.rs: handle_confirm_quit.
handle_confirm_quit(key, self) ==
    CASE key.code \in {"y", "Y"} -> [state |-> self, action |-> "Quit"]
      [] key.code \in {"n", "N", "Esc"} ->
            [state |-> [self EXCEPT !.mode = "Normal"], action |-> "Continue"]
      [] OTHER -> [state |-> self, action |-> "Continue"]

\* keybindings.rs: handle_insert.
handle_insert(key, self) ==
    CASE key.code = "Esc" ->
            [state |-> [self EXCEPT !.mode = "Normal"], action |-> "Continue"]
      [] OTHER -> [state |-> self, action |-> "Continue"]

\* A handler that only rewrites the AppState and returns: `handled` is what
\* it leaves and returns.
key_handled(key, handled) ==
    /\ app_pc = "running"
    /\ handled.state.help_scroll \in 0..MaxScroll \cup {U16_MAX}
    /\ state' = handled.state
    /\ key_log' = returned(key, state, handled.action)
    /\ UNCHANGED << git_tx, git_results, app_pc, last_call, applied, selected >>
    /\ UNCHANGED << worker_vars, fn_vars, main_vars, db_vars >>

\* keybindings.rs: handle_normal: the scroll keys first, then the file-list
\* keys, then its own match.
handle_normal(key) ==
    \/ handle_scroll_key(key)
    \/ ~is_scroll_key(key) /\ handle_file_list_key(key)
    \/ /\ ~is_scroll_key(key)
       /\ ~is_file_list_key(key, state)
       /\ \/ press_prev_hunk(key)
          \/ press_next_hunk(key)
          \/ /\ key.code \notin {"[", "]"}
             /\ key_handled(key, handle_normal_match(key, state))

\* keybindings.rs: handle_key dispatches on state.mode.
handle_key(key) ==
    \/ state.mode = "HelpOverlay" /\ key_handled(key, handle_help(key, state))
    \/ state.mode = "ConfirmQuit" /\ key_handled(key, handle_confirm_quit(key, state))
    \/ state.mode = "Normal" /\ handle_normal(key)
    \/ state.mode = "Insert" /\ key_handled(key, handle_insert(key, state))

\* handle_key takes any AppState: mode and has_unsaved_comments are public
\* fields set by whoever owns the state, so they are drawn from their types.
KeyInit ==
    /\ WorkerInit
    /\ fn_in = None
    /\ fn_out = None
    /\ state \in {[AppState_default EXCEPT !.mode = mode,
                                           !.has_unsaved_comments = unsaved] :
                     mode \in Mode, unsaved \in BOOLEAN}
    /\ git_tx = << >>
    /\ git_results = << >>
    /\ app_pc = "running"
    /\ last_call = "default"
    /\ applied = None
    /\ selected = None
    /\ key_log = None
    /\ MainInit
    /\ DbInit

\* Any sequence of keys given to handle_key on one AppState.
KeySpec == KeyInit /\ [][\E key \in KeyEvents : handle_key(key)]_vars

\* ------------------------------------------------------------ the main loop

\* event.rs: enum AppEvent (GitResult is defined with the worker's channel).
Render == [type |-> "Render"]

Tick == [type |-> "Tick"]

Key(code) == [type |-> "Key", code |-> code]

Resize == [type |-> "Resize"]

Mouse == [type |-> "Mouse"]

Quit == [type |-> "Quit"]

\* What crossterm's EventStream yields while the terminal is live: key presses
\* and releases, resizes, mouse events, and events of the other kinds.
CrosstermEvent ==
    {[kind |-> "Key", press |-> b, code |-> c] : b \in BOOLEAN, c \in {"q", "Q", "j"}}
        \cup {[kind |-> k] : k \in {"Resize", "Mouse", "FocusGained"}}

\* spawn_event_task, the crossterm arm: the AppEvent sent for a terminal
\* event, or None when the event is dropped.
to_app_event(ev) ==
    CASE ev.kind = "Key" -> IF ev.press THEN Some(Key(ev.code)) ELSE None
      [] ev.kind = "Resize" -> Some(Resize)
      [] ev.kind = "Mouse" -> Some(Mouse)
      [] OTHER -> None

\* The payload a git worker holding a clone of handler.tx sends.
WorkerPayload == process_diff("Staged", ThreeFileDiff)

\* The receiver lives until main returns; a send after that fails and the
\* error is discarded.
send_event(ev) ==
    /\ sent < MaxEvents
    /\ sent' = sent + 1
    /\ rx' = IF mpc # "returned" THEN Append(rx, ev) ELSE rx

\* `let _ = tx.send(..)` in the event task: the Err of a send without receiver
\* is dropped and the loop goes on to its next iteration.
task_send(ev) ==
    /\ send_event(ev)
    /\ task_failed_sends' =
          IF mpc = "returned" THEN task_failed_sends + 1 ELSE task_failed_sends

\* spawn_event_task: tick_interval fired.
event_task_tick ==
    /\ task_send(Tick)
    /\ UNCHANGED << mpc, term_flag, stream, draws, renders, restores, after_flag,
                    exit_via, last_result >>
    /\ UNCHANGED << worker_vars, fn_vars, app_vars, db_vars >>

\* spawn_event_task: render_interval fired.
event_task_render ==
    /\ task_send(Render)
    /\ UNCHANGED << mpc, term_flag, stream, draws, renders, restores, after_flag,
                    exit_via, last_result >>
    /\ UNCHANGED << worker_vars, fn_vars, app_vars, db_vars >>

\* spawn_event_task: reader.next() yielded Some(Ok(ev)).
event_task_input(ev) ==
    /\ stream = "live"
    /\ IF to_app_event(ev) # None
       THEN task_send(to_app_event(ev)[1])
       ELSE UNCHANGED << sent, rx, task_failed_sends >>
    /\ UNCHANGED << mpc, term_flag, stream, draws, renders, restores, after_flag,
                    exit_via, last_result >>
    /\ UNCHANGED << worker_vars, fn_vars, app_vars, db_vars >>

\* The terminal input ends: from now on reader.next() yields None, which the
\* crossterm arm's `_ => {}` ignores; the task keeps looping over its timers.
stream_ends ==
    /\ stream = "live"
    /\ stream' = "exhausted"
    /\ UNCHANGED << mpc, term_flag, rx, sent, draws, renders, restores, after_flag,
                    exit_via, last_result,
                    task_failed_sends >>
    /\ UNCHANGED << worker_vars, fn_vars, app_vars, db_vars >>

spawn_event_task ==
    \/ event_task_tick
    \/ event_task_render
    \/ \E ev \in CrosstermEvent : event_task_input(ev)

\* git_worker_loop's event_tx.send(AppEvent::GitResult(..)) on a clone of
\* handler.tx.
git_result_arrives ==
    /\ send_event(GitResult(WorkerPayload))
    /\ UNCHANGED << mpc, term_flag, stream, draws, renders, restores, after_flag,
                    exit_via, last_result,
                    task_failed_sends >>
    /\ UNCHANGED << worker_vars, fn_vars, app_vars, db_vars >>

\* tui.rs register_sigterm: SIGTERM stores true into the flag.
sigterm ==
    /\ ~term_flag
    /\ mpc # "returned"
    /\ term_flag' = TRUE
    /\ UNCHANGED << mpc, rx, stream, sent, draws, renders, restores, after_flag,
                    exit_via, last_result,
                    task_failed_sends >>
    /\ UNCHANGED << worker_vars, fn_vars, app_vars, db_vars >>

\* A heartbeat arm that does not look at the flag.
loop_heartbeat_ignores_flag ==
    /\ mpc = "select"
    /\ rx = << >>
    /\ UNCHANGED vars

\* The heartbeat arm: the 50 ms sleep completed before any event was ready.
loop_heartbeat ==
    /\ mpc = "select"
    /\ rx = << >>
    /\ IF term_flag
       THEN mpc' = "restore" /\ exit_via' = "heartbeat"
       ELSE UNCHANGED << mpc, exit_via >>
    /\ UNCHANGED << term_flag, rx, stream, sent, draws, renders, restores,
                    after_flag, last_result,
                    task_failed_sends >>
    /\ UNCHANGED << worker_vars, fn_vars, app_vars, db_vars >>

\* A receive arm that also redraws on Resize.
loop_recv_draws_on_resize(draw_ok) ==
    /\ mpc = "select"
    /\ rx # << >>
    /\ LET ev == Head(rx)
       IN  /\ after_flag' = after_flag + (IF term_flag THEN 1 ELSE 0)
           /\ last_result' = IF ev.type = "GitResult" THEN Some(ev.payload)
                              ELSE last_result
           /\ renders' = renders + (IF ev.type = "Render" THEN 1 ELSE 0)
           /\ draws' = draws + (IF ev.type \in {"Render", "Resize"} THEN 1 ELSE 0)
           /\ CASE ev.type \in {"Render", "Resize"} /\ ~draw_ok ->
                     mpc' = "returned" /\ exit_via' = "draw_error" /\ rx' = << >>
                [] ev.type = "Key" /\ ev.code \in {"q", "Q"} ->
                     mpc' = "restore" /\ exit_via' = "key" /\ rx' = Tail(rx)
                [] ev.type = "Quit" ->
                     mpc' = "restore" /\ exit_via' = "quit" /\ rx' = Tail(rx)
                [] OTHER ->
                     mpc' = "poll" /\ rx' = Tail(rx) /\ UNCHANGED exit_via
    /\ UNCHANGED << term_flag, stream, sent, restores, task_failed_sends >>
    /\ UNCHANGED << worker_vars, fn_vars, app_vars, db_vars >>

\* The rx.recv() arm and its match.  Render calls terminal.draw once and `?`
\* returns from main on its error; q and Q break; Quit breaks; every other
\* event, GitResult included, falls to an empty arm.  recv never yields None:
\* main keeps handler.tx alive until it returns.
loop_recv(draw_ok) ==
    /\ mpc = "select"
    /\ rx # << >>
    /\ LET ev == Head(rx)
       IN  /\ after_flag' = after_flag + (IF term_flag THEN 1 ELSE 0)
           /\ last_result' = IF ev.type = "GitResult" THEN Some(ev.payload)
                              ELSE last_result
           /\ renders' = renders + (IF ev.type = "Render" THEN 1 ELSE 0)
           /\ draws' = draws + (IF ev.type = "Render" THEN 1 ELSE 0)
           /\ CASE ev.type = "Render" /\ ~draw_ok ->
                     mpc' = "returned" /\ exit_via' = "draw_error" /\ rx' = << >>
                [] ev.type = "Key" /\ ev.code \in {"q", "Q"} ->
                     mpc' = "restore" /\ exit_via' = "key" /\ rx' = Tail(rx)
                [] ev.type = "Quit" ->
                     mpc' = "restore" /\ exit_via' = "quit" /\ rx' = Tail(rx)
                [] OTHER ->
                     mpc' = "poll" /\ rx' = Tail(rx) /\ UNCHANGED exit_via
    /\ UNCHANGED << term_flag, stream, sent, restores, task_failed_sends >>
    /\ UNCHANGED << worker_vars, fn_vars, app_vars, db_vars >>

\* A loop that polls the flag on the heartbeat only.
loop_poll_flag_skipped ==
    /\ mpc = "poll"
    /\ mpc' = "select"
    /\ UNCHANGED << term_flag, rx, stream, sent, draws, renders, restores,
                    after_flag, exit_via, last_result,
                    task_failed_sends >>
    /\ UNCHANGED << worker_vars, fn_vars, app_vars, db_vars >>

\* if term_flag.load(Ordering::Relaxed) { break } after the match.
loop_poll_flag ==
    /\ mpc = "poll"
    /\ IF term_flag
       THEN mpc' = "restore" /\ exit_via' = "poll"
       ELSE mpc' = "select" /\ UNCHANGED exit_via
    /\ UNCHANGED << term_flag, rx, stream, sent, draws, renders, restores,
                    after_flag, last_result,
                    task_failed_sends >>
    /\ UNCHANGED << worker_vars, fn_vars, app_vars, db_vars >>

\* tui::restore_tui()?; Ok(()): main returns whatever restore_tui returned,
\* and rx is dropped.
restore_tui ==
    /\ mpc = "restore"
    /\ restores' = restores + 1
    /\ mpc' = "returned"
    /\ rx' = << >>
    /\ UNCHANGED << term_flag, stream, sent, draws, renders, after_flag, exit_via,
                    last_result,
                    task_failed_sends >>
    /\ UNCHANGED << worker_vars, fn_vars, app_vars, db_vars >>

event_loop ==
    \/ loop_heartbeat
    \/ \E draw_ok \in BOOLEAN : loop_recv(draw_ok)
    \/ loop_poll_flag
    \/ restore_tui

MainNext ==
    \/ spawn_event_task
    \/ stream_ends
    \/ git_result_arrives
    \/ sigterm
    \/ event_loop

MainSpec == Init /\ [][MainNext]_vars

\* The runtime polls main's future: every arm of the select that is ready is
\* eventually taken.
FairMainSpec == MainSpec /\ WF_vars(event_loop)

\* ----------------------------------------------------------------- claims

RECURSIVE PlacedOf(_)
PlacedOf(rs) ==
    IF rs = << >> THEN << >>
    ELSE (IF Head(rs).delivered THEN <<Head(rs).payload>> ELSE << >>)
            \o PlacedOf(Tail(rs))

\* The payloads the event channel accepted, in the order it accepted them.
Placed == PlacedOf(results)

\* C1: every request the worker dequeues gets exactly one send of a GitResult,
\* never zero and never two: the requests dequeued are the sends made plus the
\* one in flight, between iterations the two counts are equal, and while the
\* receiver lives every send has put exactly one event on the channel.
C1_OneResultPerRequest ==
    /\ dequeued = Len(results) + Len(request)
    /\ (request # None) <=> (wpc \in {"handle", "send"})
    /\ wpc \in {"recv", "done"} => Len(results) = dequeued
    /\ Len(event_chan) <= Len(Placed)
    /\ event_rx => Len(Placed) = Len(results)

C1_Witness ==
    /\ wpc = "recv"
    /\ enqueued = << LoadDiff("CommitRange"), LoadDiff("Unstaged") >>
    /\ Len(results) = 2
    /\ results[1].payload = EmptyPayload("CommitRange")
    /\ results[2].payload.hunks # << >>
    /\ Len(event_chan) = 2

\* C2: results are delivered in request arrival order: the k-th GitResult
\* placed on the event channel carries the mode of the k-th request enqueued,
\* and the channel holds the placed results in that order.
C2_ResultsInArrivalOrder ==
    /\ \A k \in 1..Len(Placed) : Placed[k].mode = RequestedMode(enqueued[k])
    /\ \A k \in 1..Len(event_chan) :
          event_chan[k] = GitResult(Placed[Len(Placed) - Len(event_chan) + k])

C2_Witness ==
    /\ enqueued = << LoadDiff("Staged"), LoadDiffRange("v1", "v1") >>
    /\ Len(event_chan) = 2
    /\ event_chan[1].payload.mode = "Staged"
    /\ event_chan[2].payload.mode = "CommitRange"

\* The ways a request's endpoints fail to resolve: no HEAD commit, no "main",
\* an unresolvable range ref, LoadDiff carrying the range mode, or the native
\* diff call itself failing.
FailsToResolve(repo, req) ==
    \/ req.tag = "LoadDiff" /\ req.mode = "Staged" /\ "HEAD" \notin repo.commits
    \/ req.tag = "LoadDiff" /\ req.mode = "BranchComparison"
          /\ ("main" \notin repo.commits \/ "HEAD" \notin repo.commits)
    \/ req.tag = "LoadDiffRange"
          /\ (req.from \notin repo.commits \/ req.to \notin repo.commits)
    \/ req.tag = "LoadDiff" /\ req.mode = "CommitRange"
    \/ ~repo.diff_ok

\* C3: when resolving a request's endpoints fails, handle_request returns the
\* payload with the requested mode and every collection empty.
C3_FailureGivesEmptyPayload ==
    (fn_out # None /\ FailsToResolve(fn_in.repo, fn_in.request)) =>
        fn_out = Some(EmptyPayload(RequestedMode(fn_in.request)))

C3_Witness ==
    /\ fn_out = Some(EmptyPayload("BranchComparison"))
    /\ fn_in.request = LoadDiff("BranchComparison")
    /\ fn_in.repo = [commits |-> {"HEAD", "v1"}, diff_ok |-> TRUE, diff |-> ThreeFileDiff]

\* C4: a resolution failure is not fatal: the worker stays in its loop and no
\* request is lost, so the requests accepted so far are always the answered
\* ones, then the one in flight, then the queue, in arrival order.
C4_FailureKeepsServing ==
    repo_handle # "failed" =>
        /\ Len(results) <= Len(enqueued)
        /\ SubSeq(enqueued, Len(results) + 1, Len(enqueued)) = request \o req_chan

C4_Witness ==
    /\ enqueued = << LoadDiffRange("gone", "v1"), LoadDiff("Staged") >>
    /\ Len(results) = 2
    /\ results[1].payload = EmptyPayload("CommitRange")
    /\ results[2].payload.files # << >>
    /\ results[2].payload.mode = "Staged"

\* C5: if opening the repository fails, the worker has returned at once and no
\* GitResult is ever sent, whatever was enqueued before or is offered after.
C5_OpenFailureSendsNothing ==
    repo_handle = "failed" =>
        /\ wpc = "done"
        /\ dequeued = 0
        /\ results = << >>
        /\ event_chan = << >>

C5_Witness ==
    /\ repo_handle = "failed"
    /\ load_returns = << TRUE, FALSE >>
    /\ Len(enqueued) = 1

\* C6 as stated: once the request channel is closed the worker sends no result
\* for a request it had not already dequeued at that moment.
C6_NoResultAfterClose ==
    dequeued_at_close >= 0 => Len(results) <= dequeued_at_close

\* C6 as amended: closing the request channel ends the loop only once the queue
\* is drained: the worker returns with every accepted request dequeued and
\* answered, nothing is accepted after the close, and nothing is sent after the
\* worker has returned.
C6_DrainsThenTerminates ==
    /\ [](repo_handle = "released" =>
            /\ ~request_tx
            /\ req_chan = << >>
            /\ dequeued = Len(enqueued)
            /\ Len(results) = Len(enqueued))
    /\ [][~request_tx => enqueued' = enqueued]_vars
    /\ [][wpc = "done" => results' = results]_vars

C6_Witness ==
    /\ repo_handle = "released"
    /\ dequeued_at_close = 0
    /\ Len(results) = 2

\* C7: after the request channel is closed the worker loop eventually returns
\* and the repository handle is released (or was never opened).
C7_ClosedLeadsToReturn ==
    (~request_tx) ~> (wpc = "done" /\ repo_handle \in {"released", "failed"})

C7_Witness ==
    /\ ~request_tx
    /\ wpc = "done"
    /\ repo_handle = "released"
    /\ dequeued_at_close = 1
    /\ Len(results) = 2

\* C8 as stated: after the first failed send the worker processes no further
\* request.
C8_NoRequestAfterFailedSend ==
    \A k \in 1..Len(results) : ~results[k].delivered => dequeued <= k

\* C8 as amended: a failed send is ignored: the step changes nothing but the
\* worker's position, which goes back to the receive with the queue and the
\* repository handle untouched, so later requests are still dequeued.
C8_FailedSendIsIgnored ==
    [][(wpc = "send" /\ ~event_rx /\ wpc' # wpc) =>
          /\ wpc' = "recv"
          /\ repo_handle' = repo_handle
          /\ req_chan' = req_chan
          /\ event_chan' = event_chan]_vars

C8_Witness ==
    /\ Len(results) = 2
    /\ ~results[1].delivered
    /\ request_tx
    /\ wpc = "recv"

\* C9: one request is in flight at a time and nothing cancels it: the worker
\* dequeues only when every earlier result has been sent, and the request in
\* flight stays the same until its own result is sent.
C9_OneInFlightNoCancel ==
    /\ [][dequeued' # dequeued =>
            (request = None /\ Len(results) = dequeued /\ dequeued' = dequeued + 1)]_vars
    /\ [][(request # None /\ results' = results) => request' = request]_vars

C9_Witness ==
    /\ wpc = "send"
    /\ request = Some(LoadDiff("Unstaged"))
    /\ req_chan = << LoadDiff("Staged") >>
    /\ payload[1].hunks # << >>

\* C11: a LoadDiff request carrying CommitRange is always a resolution
\* failure: whatever names the repository resolves and whatever its native
\* diff would be, get_diff_for_mode yields no diff, and handle_request returns
\* the empty payload tagged CommitRange.
C11_CommitRangeAlwaysFails ==
    fn_in.request = LoadDiff("CommitRange") =>
        /\ ~get_diff_for_mode(fn_in.repo, "CommitRange").ok
        /\ fn_out # None => fn_out = Some(EmptyPayload("CommitRange"))

C11_Witness ==
    /\ fn_in.request = LoadDiff("CommitRange")
    /\ fn_in.repo = [commits |-> RepoRefs, diff_ok |-> TRUE, diff |-> ThreeFileDiff]
    /\ fn_out = Some(EmptyPayload("CommitRange"))

\* C12: the range-requiring mode never arrives at the worker as LoadDiff: no
\* LoadDiff(CommitRange) is ever on the request channel behind git_tx.
C12_NoLoadDiffCommitRange ==
    \A i \in 1..Len(git_tx) : git_tx[i] # LoadDiff("CommitRange")

\* C19: when apply_git_result returns, the mode, the file summaries, the diff
\* lines and the hunk offsets are the payload's and the loading flag is clear,
\* whatever mode was selected before the call.
C19_ApplyInstallsPayload ==
    last_call = "apply_git_result" =>
        /\ state.diff_mode = applied[1].mode
        /\ state.file_summaries = applied[1].files
        /\ state.diff_lines = applied[1].highlighted_lines
        /\ state.hunk_offsets = applied[1].hunk_offsets
        /\ state.diff_loading = FALSE

\* The Staged result is applied while BranchComparison is the selected mode
\* and its request is still queued.
C19_Witness ==
    /\ last_call = "apply_git_result"
    /\ applied[1].mode = "Staged"
    /\ applied[1].hunk_offsets # << >>
    /\ git_tx = << LoadDiff("BranchComparison") >>
    /\ state.diff_mode = "Staged"
    /\ state.diff_lines = applied[1].highlighted_lines

\* C20: applying a payload resets diff_scroll and hunk_cursor to 0 when the
\* payload's mode differs from the mode of the payload displayed before it,
\* and leaves both as they were when the two modes are the same.
C20_ResetOnDisplayedModeChange ==
    [][(on_git_result /\ applied # None) =>
          IF Head(git_results).mode # applied[1].mode
          THEN state'.diff_scroll = 0 /\ state'.hunk_cursor = 0
          ELSE /\ state'.diff_scroll = state.diff_scroll
               /\ state'.hunk_cursor = state.hunk_cursor]_vars

\* C13: exactly one redraw per Render event and none otherwise: the number of
\* terminal.draw calls always equals the number of Render events main has
\* received, whatever other events and heartbeats it has handled.
C13_OneDrawPerRender ==
    draws = renders

\* A Render, a GitResult and a Resize were received: one draw.
C13_Witness ==
    /\ sent = 3
    /\ rx = << >>
    /\ mpc = "poll"
    /\ last_result # None
    /\ renders = 1
    /\ draws = 1

\* C14: once the termination flag is set and no event is arriving, the
\* heartbeat arm fires, reads the flag and breaks the loop: a heartbeat that
\* finds the flag set always leaves the loop, and from a set flag with an empty
\* channel either the heartbeat has ended the loop or an event has arrived.
C14_HeartbeatSeesFlag ==
    /\ [][(loop_heartbeat /\ term_flag) => mpc' = "restore"]_vars
    /\ (term_flag /\ mpc = "select" /\ rx = << >>)
          ~> (exit_via = "heartbeat" \/ rx # << >>)

\* No event was ever sent, and the heartbeat ended the loop.
C14_Witness ==
    /\ term_flag
    /\ sent = 0
    /\ exit_via = "heartbeat"
    /\ mpc = "returned"

\* C15: the flag is polled after every handled event: once the flag is set
\* the loop receives at most one more event, and having received it does not
\* go back to the select.
C15_AtMostOneEventAfterFlag ==
    /\ after_flag <= 1
    /\ after_flag = 1 => mpc # "select"

\* The flag was set with events ready; one was handled, the poll after it
\* broke the loop, and an event is still waiting.
C15_Witness ==
    /\ term_flag
    /\ after_flag = 1
    /\ exit_via = "poll"
    /\ mpc = "restore"
    /\ rx # << >>

\* C16: the loop has a single exit point: when main has returned, restore_tui
\* has been called exactly once.
C16_RestoreReachedOnce ==
    mpc = "returned" => restores = 1

\* C17: when the terminal input stream is exhausted the loop eventually
\* terminates.
C17_ExhaustedInputTerminates ==
    (stream = "exhausted") ~> (mpc = "returned")

\* C18: a GitResult the main loop has received has been applied to AppState.
C18_ResultReachesState ==
    last_result # None =>
        /\ state.diff_mode = last_result[1].mode
        /\ state.file_summaries = last_result[1].files
        /\ state.diff_lines = last_result[1].highlighted_lines
        /\ state.hunk_offsets = last_result[1].hunk_offsets

\* C21: a stale result is discarded: applying a payload whose mode is not the
\* mode currently selected leaves the displayed file list, line buffer and
\* hunk offsets as they were.
C21_StaleResultDiscarded ==
    [][(on_git_result /\ Head(git_results).mode # state.diff_mode) =>
          /\ state'.file_summaries = state.file_summaries
          /\ state'.diff_lines = state.diff_lines
          /\ state'.hunk_offsets = state.hunk_offsets]_vars

\* The hunks of a native diff, file by file.
NativeHunks(diff) == Flatten([i \in 1..Len(diff) |-> diff[i].hunks])

RECURSIVE SumLen(_)
SumLen(seqs) == IF seqs = << >> THEN 0 ELSE Len(Head(seqs)) + SumLen(Tail(seqs))

RECURSIVE CountOrigin(_, _)
CountOrigin(lines, origin) ==
    IF lines = << >> THEN 0
    ELSE (IF Head(lines).origin = origin THEN 1 ELSE 0)
            + CountOrigin(Tail(lines), origin)

\* A traversal that made every callback of the diff.
Completed == fn_out[1].calls = Len(foreach(fn_in.diff))

\* C24: file_line_offsets has one entry per file; entry i is
\* hunk_offsets[file_hunk_starts[i]] when file i has a hunk and 0 when it has
\* none, wherever the hunk-less file sits.
C24_FileLineOffsets ==
    (fn_out # None /\ fn_out[1].fn = "process_diff") =>
        LET p == fn_out[1].ret
            starts == extract_hunks(fn_in.diff).file_hunk_starts
        IN  /\ Len(p.file_line_offsets) = Len(p.files)
            /\ Len(p.files) = Len(fn_in.diff)
            /\ \A i \in 1..Len(fn_in.diff) :
                  p.file_line_offsets[i] =
                     IF fn_in.diff[i].hunks # << >>
                     THEN p.hunk_offsets[starts[i] + 1]
                     ELSE 0

\* C25: file_hunk_starts has one entry per delta, and entry i is the number
\* of hunks of the files before file i: it starts at 0, never decreases, and
\* is [0, 2] for a file with two hunks followed by a file with one.
C25_FileHunkStarts ==
    (fn_out # None /\ fn_out[1].fn = "extract_hunks" /\ Completed) =>
        LET starts == fn_out[1].ret.file_hunk_starts
            diff == fn_in.diff
        IN  /\ Len(starts) = Len(diff)
            /\ \A i \in 1..Len(diff) :
                  starts[i] = SumLen([k \in 1..(i - 1) |-> diff[k].hunks])
            /\ diff # << >> => starts[1] = 0
            /\ \A i \in 1..(Len(diff) - 1) : starts[i] <= starts[i + 1]
            /\ (Len(diff) = 2 /\ Len(diff[1].hunks) = 2 /\ Len(diff[2].hunks) = 1)
                  => starts = <<0, 2>>

C25_Witness ==
    /\ fn_in.diff = << ThreeFileDiff[1], PairDiff[1] >>
    /\ fn_out # None
    /\ fn_out[1].fn = "extract_hunks"
    /\ Completed
    /\ fn_out[1].ret.file_hunk_starts = <<0, 2>>
    /\ Len(fn_out[1].ret.hunks) = 3

\* C26: for every file, added is the number of '+' lines and removed the
\* number of '-' lines in that file's own hunks; lines of other origins and
\* lines of other files do not count.
C26_CountsFromOwnOrigins ==
    (fn_out # None /\ fn_out[1].fn = "extract_files" /\ Completed) =>
        LET files == fn_out[1].ret
            diff == fn_in.diff
            own(i) == Flatten([j \in 1..Len(diff[i].hunks) |-> diff[i].hunks[j].lines])
        IN  /\ Len(files) = Len(diff)
            /\ \A i \in 1..Len(diff) :
                  /\ files[i].added = CountOrigin(own(i), "+")
                  /\ files[i].removed = CountOrigin(own(i), "-")

\* A file with a context line, between two files with lines of their own.
C26_Witness ==
    /\ fn_in.diff = << ThreeFileDiff[3], ThreeFileDiff[1], PairDiff[1] >>
    /\ fn_out # None
    /\ fn_out[1].fn = "extract_files"
    /\ Completed
    /\ fn_out[1].ret[1].removed = 2
    /\ fn_out[1].ret[2].added = 1
    /\ fn_out[1].ret[2].removed = 1

\* C28: whatever the point at which the traversal reports an error, every
\* hunk extract_hunks returns is complete: it holds all the lines of the hunk
\* it was built from.
C28_NoPartialHunk ==
    (fn_out # None /\ fn_out[1].fn = "extract_hunks") =>
        LET hunks == fn_out[1].ret.hunks
            native == NativeHunks(fn_in.diff)
        IN  /\ Len(hunks) <= Len(native)
            /\ \A k \in 1..Len(hunks) :
                  hunks[k] = OwnedDiffHunk(native[k],
                                [i \in 1..Len(native[k].lines) |->
                                    OwnedDiffLine(native[k].lines[i])])

\* highlight_hunks has returned.
Highlighted == fn_out # None /\ fn_out[1].fn = "highlight_hunks"

\* C22: hunk_offsets has exactly one entry per hunk and is strictly
\* increasing, whatever the number of hunks and of lines per hunk, hunks with
\* no lines included.
C22_OffsetsStrictlyIncreasing ==
    Highlighted =>
        LET offs == fn_out[1].ret.hunk_offsets
        IN  /\ Len(offs) = Len(fn_in.hunks)
            /\ \A k \in 1..(Len(offs) - 1) : offs[k] < offs[k + 1]

\* A hunk with no lines followed by a hunk with one.
C22_Witness ==
    /\ Highlighted
    /\ Len(fn_in.hunks) = 2
    /\ fn_in.hunks[1].lines = << >>
    /\ Len(fn_in.hunks[2].lines) = 1
    /\ fn_out[1].ret.hunk_offsets = <<0, 1>>

\* C23: hunk_offsets[k] is the index of hunk k's header line in
\* highlighted_lines, i.e. the number of lines pushed before hunk k was
\* reached, with a theme and without one.
C23_OffsetIsHeaderIndex ==
    Highlighted =>
        LET offs == fn_out[1].ret.hunk_offsets
            out == fn_out[1].ret.highlighted_lines
            hunks == fn_in.hunks
        IN  \A k \in 1..Len(hunks) :
               /\ k <= Len(offs)
               /\ offs[k] < Len(out)
               /\ out[offs[k] + 1] = HeaderLine(hunks[k])
               /\ offs[k] = (k - 1) + SumLen([j \in 1..(k - 1) |-> hunks[j].lines])

\* The fallback path: no theme, two hunks, the second header after the first
\* hunk's two lines.
C23_Witness ==
    /\ Highlighted
    /\ ~fn_in.theme
    /\ Len(fn_in.hunks) = 2
    /\ Len(fn_in.hunks[1].lines) = 2
    /\ fn_out[1].ret.hunk_offsets = <<0, 3>>
    /\ fn_out[1].ret.highlighted_lines[4].style = "header"
    /\ fn_out[1].ret.highlighted_lines[2].style = "plain"

\* What a rendered line shows of the input: whether it is a header, which
\* origin its prefix carries and its text.
OriginOf(prefix) ==
    CASE prefix = "- " -> "-" [] prefix = "+ " -> "+" [] OTHER -> prefix

Shown(r) ==
    [header |-> r.style = "header", origin |-> OriginOf(r.prefix), text |-> r.text]

\* What hunk k has to show: its header, then its lines in input order.
ShownOfHunk(hunk) ==
    << [header |-> TRUE, origin |-> "", text |-> <<hunk.header>>] >>
       \o [i \in 1..Len(hunk.lines) |->
              [header |-> FALSE, origin |-> hunk.lines[i].origin,
               text |-> <<hunk.lines[i].content[1]>>]]

\* C27: the output is, hunk by hunk in input order, the hunk's header followed
\* by exactly one rendered line per input line in input order; its length is
\* the number of hunks plus the number of lines (3 for a removed line followed
\* by an added line).
C27_OrderAndCountPreserved ==
    Highlighted =>
        LET out == fn_out[1].ret.highlighted_lines
            hunks == fn_in.hunks
        IN  /\ Len(out) = Len(hunks) + SumLen([k \in 1..Len(hunks) |-> hunks[k].lines])
            /\ [i \in 1..Len(out) |-> Shown(out[i])]
                  = Flatten([k \in 1..Len(hunks) |-> ShownOfHunk(hunks[k])])

\* A removed line followed by an added line, then a hunk whose last line is a
\* removed one.
C27_Witness ==
    /\ Highlighted
    /\ fn_in.theme
    /\ Len(fn_in.hunks) = 2
    /\ Len(fn_in.hunks[1].lines) = 2
    /\ [i \in 1..2 |-> fn_in.hunks[1].lines[i].origin] = <<"-", "+">>
    /\ Len(fn_in.hunks[2].lines) = 1
    /\ fn_in.hunks[2].lines[1].origin = "-"
    /\ Len(fn_out[1].ret.highlighted_lines) = 5
    /\ fn_out[1].ret.highlighted_lines[2].style = "word"
    /\ fn_out[1].ret.highlighted_lines[5].prefix = "- "

\* C29: once the receiver of the event channel has been dropped, the event
\* task exits at its first send: it makes at most one send that finds no
\* receiver.
C29_TaskExitsOnFailedSend == task_failed_sends <= 1

\* C30: two detect_or_create_session calls on one connection return the same
\* session id exactly when their (repo_path, diff_mode, diff_args) triples
\* are equal; a call with a triple seen before adds no row, a call with a new
\* triple adds exactly one.
C30_SessionsKeyedByTriple ==
    LET calls == db.calls
    IN  /\ \A i, j \in 1..Len(calls) :
              (calls[i].ret.id = calls[j].ret.id) <=> (calls[i].key = calls[j].key)
        /\ \A i \in 1..Len(calls) :
              calls[i].rows_after =
                 calls[i].rows_before
                    + (IF \E j \in 1..(i - 1) : calls[j].key = calls[i].key
                       THEN 0 ELSE 1)

\* The calls of the lifecycle test: a triple, the same triple again, then one
\* with another diff_mode; two rows.
C30_Witness ==
    /\ Len(db.calls) = 3
    /\ db.calls[1].key = db.calls[2].key
    /\ db.calls[1].ret.id = db.calls[2].ret.id
    /\ db.calls[3].key.diff_mode # db.calls[1].key.diff_mode
    /\ db.calls[3].ret.id # db.calls[1].ret.id
    /\ db.calls[2].rows_after = 1
    /\ db.calls[3].rows_after = 2
    /\ Cardinality(db.sessions) = 2

\* C32: open_db on a legacy file leaves schema version 1 with the new sessions
\* schema and no legacy row, and every detect_or_create_session that follows
\* succeeds.
C32_LegacyFileMigrated ==
    (db.origin = "legacy" /\ \E c \in Conns : db.conns[c].pc # "closed") =>
        /\ db.file.versions = {1}
        /\ db.file.sessions_schema = "v1"
        /\ \A r \in db.file.sessions : r.id \in Uuids
        /\ \A i \in 1..Len(db.calls) : db.calls[i].ok

\* C40: with two connections, the sessions table holds at most one row per
\* triple and all calls made with one triple get the same session id.
C40_OneSessionPerKeyAcrossConnections ==
    db.file.sessions_schema = "v1" =>
        /\ \A r, q \in db.file.sessions :
              (/\ r.repo_path = q.repo_path
               /\ r.diff_mode = q.diff_mode
               /\ r.diff_args = q.diff_args) => r.id = q.id
        /\ \A i, j \in 1..Len(db.calls) :
              (db.calls[i].ok /\ db.calls[j].ok /\ db.calls[i].key = db.calls[j].key)
                 => db.calls[i].session[1].id = db.calls[j].session[1].id

\* The flag load_file_review_state reports for a pair in a table, a missing
\* row counting as false.
FlagIn(review, session_id, file_path) ==
    <<file_path, TRUE>> \in load_file_review_state([review |-> review], session_id)

OtherRows(review, session_id, file_path) ==
    {r \in review : ~(r.session_id = session_id /\ r.file_path = file_path)}

\* C31: every toggle returns and stores the negation of the flag stored for
\* its (session_id, file_path), a missing row counting as false, and leaves
\* the rows of every other pair as they were; the first toggle of a pair
\* returns true, two consecutive toggles of a pair restore its flag, and
\* opening the database again changes no flag.
C31_ToggleFlipsOneFlag ==
    LET calls == db.calls
    IN  \A i \in 1..Len(calls) :
           LET c == calls[i]
           IN  IF c.op = "toggle"
               THEN /\ c.ret = ~FlagIn(c.before, c.session_id, c.file_path)
                    /\ FlagIn(c.after, c.session_id, c.file_path) = c.ret
                    /\ OtherRows(c.after, c.session_id, c.file_path)
                          = OtherRows(c.before, c.session_id, c.file_path)
                    /\ (\A j \in 1..(i - 1) :
                           ~(calls[j].op = "toggle"
                             /\ calls[j].session_id = c.session_id
                             /\ calls[j].file_path = c.file_path)) => c.ret
                    /\ (/\ i > 1
                        /\ calls[i - 1].op = "toggle"
                        /\ calls[i - 1].session_id = c.session_id
                        /\ calls[i - 1].file_path = c.file_path)
                          => FlagIn(c.after, c.session_id, c.file_path)
                               = FlagIn(calls[i - 1].before, c.session_id, c.file_path)
                    /\ (i = Len(calls)) => c.after = db.file.review
               ELSE /\ c.after = c.before
                    /\ (i = Len(calls)) => c.after = db.file.review

\* A file toggled to true and back to false, and the database opened again
\* as the last call.
C31_Witness ==
    /\ Len(db.calls) = MaxCalls
    /\ db.calls[1].op = "toggle"
    /\ db.calls[1].ret
    /\ db.calls[2].op = "toggle"
    /\ db.calls[2].session_id = db.calls[1].session_id
    /\ db.calls[2].file_path = db.calls[1].file_path
    /\ ~db.calls[2].ret
    /\ db.calls[MaxCalls].op = "open_db"
    /\ db.opens = 2
    /\ FlagIn(db.file.review, db.calls[1].session_id, db.calls[1].file_path) = FALSE

\* The rendered line of line i of hunk k.
RenderedLine(k, i) ==
    fn_out[1].ret.highlighted_lines[fn_out[1].ret.hunk_offsets[k] + 1 + i]

OriginAt(lines, i) == IF i \in 1..Len(lines) THEN lines[i].origin ELSE "none"

\* C33: with the theme found, a removed line and the line after it are
\* rendered with word-level emphasis exactly when that next line, in the same
\* hunk, is an added line; a removed line followed by anything else or by
\* nothing is one removed line with syntax highlighting only, and an added
\* line not directly after a removed line is emitted alone.
C33_PairingByAdjacency ==
    (Highlighted /\ fn_in.theme) =>
        \A k \in 1..Len(fn_in.hunks) :
           LET lines == fn_in.hunks[k].lines
           IN  \A i \in 1..Len(lines) :
                  LET r == RenderedLine(k, i)
                      text(j) == code_of(lines[j].content)
                  IN  CASE lines[i].origin = "-" /\ OriginAt(lines, i + 1) = "+" ->
                              r = Rendered("- ", "word", text(i), text(i + 1))
                        [] lines[i].origin = "-" ->
                              r = Rendered("- ", "syntax", text(i), <<fn_in.ext>>)
                        [] lines[i].origin = "+" /\ OriginAt(lines, i - 1) = "-" ->
                              r = Rendered("+ ", "word", text(i), text(i - 1))
                        [] lines[i].origin = "+" ->
                              r = Rendered("+ ", "syntax", text(i), <<fn_in.ext>>)
                        [] OTHER -> r.style = "syntax"

\* One hunk: a removed line before a context line, then a removed line
\* directly before an added line.
C33_Witness ==
    /\ Highlighted
    /\ fn_in.theme
    /\ Len(fn_in.hunks) = 1
    /\ Len(fn_in.hunks[1].lines) = 3
    /\ [i \in 1..3 |-> fn_in.hunks[1].lines[i].origin] = <<" ", "-", "+">>
    /\ [i \in 2..4 |-> fn_out[1].ret.highlighted_lines[i].style]
          = [i \in 2..4 |-> IF i = 2 THEN "syntax" ELSE "word"]

\* C34: with the theme found, no line of a block of two or more consecutive
\* removed lines, and no added line following such a block, gets word-level
\* emphasis: a removed line is word-diffed only when it is a lone removed line
\* directly followed by an added line, and an added line only directly after
\* a lone removed line.
C34_BlocksDegrade ==
    (Highlighted /\ fn_in.theme) =>
        \A k \in 1..Len(fn_in.hunks) :
           LET lines == fn_in.hunks[k].lines
           IN  \A i \in 1..Len(lines) :
                  RenderedLine(k, i).style = "word" =>
                     \/ /\ lines[i].origin = "-"
                        /\ OriginAt(lines, i - 1) # "-"
                        /\ OriginAt(lines, i + 1) = "+"
                     \/ /\ lines[i].origin = "+"
                        /\ OriginAt(lines, i - 1) = "-"
                        /\ OriginAt(lines, i - 2) # "-"

\* C35: whatever results are applied and keys are pressed, the hunk cursor
\* indexes an entry of a non-empty hunk_offsets, and neither prev_hunk nor
\* next_hunk indexes out of bounds.
C35_CursorInsideOffsets ==
    /\ state.hunk_offsets # << >> => state.hunk_cursor < Len(state.hunk_offsets)
    /\ app_pc # "panicked"

\* C36: while a request sent by Tab is queued, being processed or answered
\* but not yet applied, diff_loading is true.
C36_LoadingWhileOutstanding ==
    (git_tx # << >> \/ git_results # << >>) => state.diff_loading

\* C37: once every request has been answered and every result applied, the
\* displayed mode is the mode the last Tab selected, the displayed content is
\* that of the last result, which answers the last request, and nothing is
\* loading.
C37_ConvergesToSelectedMode ==
    (selected # None /\ git_tx = << >> /\ git_results = << >>) =>
        /\ state.diff_mode = selected[1]
        /\ applied # None
        /\ applied[1].mode = selected[1]
        /\ state.file_summaries = applied[1].files
        /\ state.diff_lines = applied[1].highlighted_lines
        /\ state.hunk_offsets = applied[1].hunk_offsets
        /\ ~state.diff_loading

\* Two Tabs in a row, the stale Staged result applied in between, and both
\* results applied: BranchComparison is selected and displayed.
C37_Witness ==
    /\ selected = Some("BranchComparison")
    /\ git_tx = << >>
    /\ git_results = << >>
    /\ applied # None
    /\ applied[1].mode = "BranchComparison"
    /\ applied[1].hunk_offsets # << >>
    /\ state.diff_mode = "BranchComparison"
    /\ last_call = "apply_git_result"


\* C38: a true return from load_diff means the request will be answered: while
\* AsyncGit and the event receiver are alive, the k-th request the channel
\* accepted is eventually followed by the k-th send on the event channel,
\* whatever the interleaving with the worker's start-up; and once the worker
\* has returned load_diff returns false.
C38_TrueReturnIsAnswered ==
    /\ \A k \in 1..MaxRequests :
          (Len(enqueued) >= k) ~>
              (\/ (Len(results) >= k /\ results[k].delivered)
               \/ ~request_tx
               \/ ~event_rx)
    /\ [][(wpc = "done" /\ load_returns' # load_returns) =>
             load_returns' = Append(load_returns, FALSE)]_vars


\* C39: quitting is guarded by the unsaved-comments flag: handle_key returns
\* Quit only for q / Esc in Normal mode without unsaved comments, or for y / Y
\* in ConfirmQuit mode (so never from HelpOverlay or Insert); with unsaved
\* comments q / Esc in Normal mode returns Continue and enters ConfirmQuit; and
\* n / N / Esc in ConfirmQuit returns Continue and goes back to Normal.
C39_QuitIsGuarded ==
    key_log # None =>
        LET call == key_log[1]
        IN  /\ call.action = "Quit" =>
                \/ /\ call.mode = "Normal"
                   /\ call.key.code \in {"q", "Esc"}
                   /\ ~call.has_unsaved_comments
                \/ /\ call.mode = "ConfirmQuit"
                   /\ call.key.code \in {"y", "Y"}
            /\ (call.mode = "Normal" /\ call.key.code \in {"q", "Esc"}) =>
                IF call.has_unsaved_comments
                THEN call.action = "Continue" /\ state.mode = "ConfirmQuit"
                ELSE call.action = "Quit"
            /\ (call.mode = "ConfirmQuit" /\ call.key.code \in {"y", "Y"}) =>
                call.action = "Quit"
            /\ (call.mode = "ConfirmQuit" /\ call.key.code \in {"n", "N", "Esc"}) =>
                call.action = "Continue" /\ state.mode = "Normal"

\* With unsaved comments, y in the confirmation dialog quits.
C39_Witness ==
    /\ key_log # None
    /\ key_log[1].mode = "ConfirmQuit"
    /\ key_log[1].has_unsaved_comments
    /\ key_log[1].key = KeyEvent("y")
    /\ key_log[1].action = "Quit"
    /\ state.mode = "ConfirmQuit"

====
